---- MODULE Spec2Model ----
(***************************************************************************)
(* Acera web client: the cache-backed fetch wrapper (apiGET), the data     *)
(* fetchers and polling hooks of lib/realTimeData.ts, and the widget       *)
(* layout store (zustand + persist) with the localStorage item it mirrors, *)
(* the Watchlist widget, searchStocks, the Next.js route handlers, the     *)
(* AI-analyst page's analyzeStock and report polling, the dashboards'      *)
(* widget dialog, drag end and toggleWidget, the SearchBar's debounce, the *)
(* order book generator and the Clerk middleware.                          *)
(* Each subsystem has its own specification over the shared variables; the *)
(* variables of the other subsystems stay at their initial values.         *)
(***************************************************************************)
EXTENDS Integers, Sequences, FiniteSets, TLC

VARIABLES
  clock,      \* apiGET: Date.now() in ms
  cache,      \* apiGET: the module-level URL cache, url -> entry or NoEntry
  calls,      \* apiGET: history of the calls made, in the order they started
  fName,      \* fetchers: the fetcher last called
  fArg,       \* fetchers: its argument
  fOutcome,   \* fetchers: how its upstream request ended
  fResult,    \* fetchers: what its promise settled with
  hKind,      \* poller: which hook or widget this is
  hMounted,   \* poller: the component is mounted
  hArg,       \* poller: symbol / limit of the current render
  hInterval,  \* poller: refreshInterval of the current render
  hData,      \* poller: useState data
  hLoading,   \* poller: useState loading
  hError,     \* poller: useState error
  timers,     \* poller: the live interval timers
  fetches,    \* poller: the fetches in flight
  hOp,        \* poller: the step taken last
  hLast,      \* poller: the fetch completed last
  mem,        \* store: each tab's in-memory store state
  open,       \* store: the tabs that have loaded the page
  storage,    \* store: localStorage['widget-store']
  sOp,        \* store: the operation performed last
  sOps,       \* store: number of operations performed
  watchlist,  \* Watchlist: useState watchlist
  newSymbol,  \* Watchlist: useState newSymbol (the input's text)
  isAdding,   \* Watchlist: useState isAdding
  wMounted,   \* Watchlist: the widget is mounted
  wStorage,   \* Watchlist: localStorage['acera-watchlist']
  wView,      \* Watchlist: what the last render shows
  wOp,        \* Watchlist: the handler that ran last
  wOps,       \* Watchlist: number of handlers run
  qQuery,     \* searchStocks: the query of the last call
  qOutcome,   \* searchStocks: how its request ended
  qResult,    \* searchStocks: what the call returned
  rRoute,     \* route handlers: the handler called last
  rReq,       \* route handlers: its request and environment
  rUp,        \* route handlers: what the upstream did
  rFetched,   \* route handlers: the upstream URL fetched, or NoFetch
  rOut,       \* route handlers: the response returned or the rejection
  aClock,     \* analyzeStock: time in ms
  aSymbol,    \* analyzeStock: useState selectedSymbol
  aLoading,   \* analyzeStock: useState loading
  aAnalysis,  \* analyzeStock: useState analysis
  aCalls,     \* analyzeStock: the calls made, in order
  aOp,        \* analyzeStock: the step taken last
  dStore,     \* dashboard: the widget store state the page renders
  dOp,        \* dashboard: the handler that ran last
  dOps,       \* dashboard: number of handlers run
  tWidgets,   \* viewport-fit dashboard: useState activeWidgets
  tOp,        \* viewport-fit dashboard: the widget toggled last
  tOps,       \* viewport-fit dashboard: number of toggles
  pClock,     \* report: time in ms
  pStatus,    \* report: reportStatus?.status
  pLoops,     \* report: the polling loops started, in order
  pOp,        \* report: the step taken last
  bClock,     \* SearchBar: time in ms
  bQuery,     \* SearchBar: useState query
  bResults,   \* SearchBar: useState results
  bOpen,      \* SearchBar: useState isOpen
  bTimers,    \* SearchBar: the debounce timers armed
  bInflight,  \* SearchBar: the searchStocks calls in flight
  bHist,      \* SearchBar: when the query last changed, and from what
  bIssued,    \* SearchBar: the queries searched, in order
  bOp,        \* SearchBar: the step taken last
  obBook,     \* order book: the book generated last
  mPath,      \* middleware: the path of the last request
  mSignedIn,  \* middleware: the request carries a session
  mOut        \* middleware: what the middleware did with it

cacheVars == <<clock, cache, calls>>
fetcherVars == <<fName, fArg, fOutcome, fResult>>
hookVars == <<hKind, hMounted, hArg, hInterval, hData, hLoading, hError, timers, fetches, hOp, hLast>>
storeVars == <<mem, open, storage, sOp, sOps>>
watchVars == <<watchlist, newSymbol, isAdding, wMounted, wStorage, wView, wOp, wOps>>
searchVars == <<qQuery, qOutcome, qResult>>
routeVars == <<rRoute, rReq, rUp, rFetched, rOut>>
analystVars == <<aClock, aSymbol, aLoading, aAnalysis, aCalls, aOp>>
dashVars == <<dStore, dOp, dOps>>
toggleVars == <<tWidgets, tOp, tOps>>
reportVars == <<pClock, pStatus, pLoops, pOp>>
barVars == <<bClock, bQuery, bResults, bOpen, bTimers, bInflight, bHist, bIssued, bOp>>
bookVars == <<obBook>>
mwVars == <<mPath, mSignedIn, mOut>>
viewVars == <<dashVars, toggleVars, reportVars, barVars, bookVars, mwVars>>
pageVars == <<watchVars, searchVars, routeVars, analystVars, viewVars>>
vars == <<cacheVars, fetcherVars, hookVars, storeVars, pageVars>>

nonCacheVars == <<fetcherVars, hookVars, storeVars, pageVars>>
nonFetcherVars == <<cacheVars, hookVars, storeVars, pageVars>>
nonHookVars == <<cacheVars, fetcherVars, storeVars, pageVars>>
nonStoreVars == <<cacheVars, fetcherVars, hookVars, pageVars>>
libVars == <<cacheVars, fetcherVars, hookVars, storeVars>>
nonWatchVars == <<libVars, searchVars, routeVars, analystVars, viewVars>>
nonSearchVars == <<libVars, watchVars, routeVars, analystVars, viewVars>>
nonRouteVars == <<libVars, watchVars, searchVars, analystVars, viewVars>>
nonAnalystVars == <<libVars, watchVars, searchVars, routeVars, viewVars>>
handlerVars == <<libVars, watchVars, searchVars, routeVars>>
nonDashVars == <<handlerVars, analystVars, reportVars, barVars, bookVars, mwVars>>
nonReportVars == <<handlerVars, dashVars, toggleVars, barVars, bookVars, mwVars>>
nonBarVars == <<handlerVars, analystVars, dashVars, toggleVars, reportVars, bookVars, mwVars>>
nonBookVars == <<handlerVars, analystVars, dashVars, toggleVars, reportVars, barVars, mwVars>>
nonMwVars == <<handlerVars, analystVars, dashVars, toggleVars, reportVars, barVars, bookVars>>

(***************************************************************************)
(* 4.1  Cache-backed fetch wrapper (apiGET)                                *)
(***************************************************************************)

\* The TTL of a cache entry, in ms.
CACHE_TTL == 30000

\* Bounds of the apiGET model.
MaxCalls == 3

\* The URLs the callers pass (QuoteStrip / MarketOverviewLite, TopMovers).
URLs == {"/api/market/index", "/api/market/top-movers"}
\* Parsed JSON bodies the upstream may answer with.
Payloads == {"body1", "body2"}
\* Amounts of time that may pass between two events.
TimeSteps == {CACHE_TTL - 1, CACHE_TTL}
\* The model follows the clock over two TTL periods.
Horizon == 2 * CACHE_TTL

NoEntry == [ts |-> -1, data |-> "none"]

\* An entry for url u was fetched within the last CACHE_TTL ms.
CacheFreshStale(u, t) == cache[u] # NoEntry /\ t - cache[u].ts <= CACHE_TTL
CacheFresh(u, t) == cache[u] # NoEntry /\ t - cache[u].ts < CACHE_TTL

\* Requests for u that are in flight.
Pending(u) == {i \in 1..Len(calls) : calls[i].url = u /\ calls[i].status = "pending"}
\* The calls whose fetch has been stored in the cache so far.
Stored == {i \in 1..Len(calls) : calls[i].status = "ok"}

\* apiGET(u) up to its await: a fresh entry is returned without a network
\* call, otherwise this caller issues its own request. `before` records the
\* calls whose fetch had been stored when this call was made, `inflight` the
\* requests for u that were in flight then.
CallRecordCoalesced(u) ==
  IF CacheFresh(u, clock)
  THEN [url |-> u, at |-> clock, status |-> "hit", req |-> FALSE,
        doneAt |-> clock, value |-> cache[u].data, before |-> Stored,
        inflight |-> Pending(u)]
  ELSE [url |-> u, at |-> clock, status |-> "pending", req |-> Pending(u) = {},
        doneAt |-> -1, value |-> "none", before |-> Stored, inflight |-> Pending(u)]
CallRecord(u) ==
  IF CacheFresh(u, clock)
  THEN [url |-> u, at |-> clock, status |-> "hit", req |-> FALSE,
        doneAt |-> clock, value |-> cache[u].data, before |-> Stored,
        inflight |-> Pending(u)]
  ELSE [url |-> u, at |-> clock, status |-> "pending", req |-> TRUE,
        doneAt |-> -1, value |-> "none", before |-> Stored, inflight |-> Pending(u)]

ApiGetCall(u) ==
  /\ Len(calls) < MaxCalls
  /\ calls' = Append(calls, CallRecord(u))
  /\ UNCHANGED <<clock, cache, nonCacheVars>>

\* The response of call i arrives with a 2xx status and body d: the entry is
\* stored with the current time and the caller gets d.
FetchResolve(i, d) ==
  /\ calls[i].status = "pending"
  /\ cache' = [cache EXCEPT ![calls[i].url] = [ts |-> clock, data |-> d]]
  /\ calls' = [calls EXCEPT ![i].status = "ok", ![i].doneAt = clock, ![i].value = d]
  /\ UNCHANGED <<clock, nonCacheVars>>

\* Network failure or non-2xx response: apiGET throws, nothing is cached.
FetchReject(i) ==
  /\ calls[i].status = "pending"
  /\ calls' = [calls EXCEPT ![i].status = "failed", ![i].doneAt = clock]
  /\ UNCHANGED <<clock, cache, nonCacheVars>>

Advance(d) ==
  /\ clock + d <= Horizon
  /\ clock' = clock + d
  /\ UNCHANGED <<cache, calls, nonCacheVars>>

(***************************************************************************)
(* Properties of apiGET                                                    *)
(***************************************************************************)

\* The fetches for the URL of call j that had been stored when j was made.
StoredBefore(j) == {i \in calls[j].before : calls[i].url = calls[j].url}
\* Those among them stored less than CACHE_TTL before j was made.
FreshBefore(j) == {i \in StoredBefore(j) : calls[j].at - calls[i].doneAt < CACHE_TTL}

\* C1 as stated: any two calls to apiGET(u) made less than 30 s apart issue
\* exactly one network request in total, the second returning the cached value,
\* and a call made 30 s or more after the cached fetch issues a new request.
C1_TwoCallsOneRequest ==
  \A j \in 1..Len(calls) :
    /\ \A i \in 1..(j - 1) :
         (calls[i].url = calls[j].url /\ calls[j].at - calls[i].at < CACHE_TTL)
           => /\ Cardinality({k \in {i, j} : calls[k].req}) = 1
              /\ calls[j].status = "hit"
    /\ (StoredBefore(j) # {} /\ FreshBefore(j) = {}) => calls[j].req

\* C1 amended: a call to apiGET(u) made less than 30 s after a fetch of u was
\* stored issues no network request and returns a value cached less than 30 s
\* before; so a call whose fetch succeeded and a later call made less than 30 s
\* after it was stored issue exactly one request in total. A call made when no
\* fetch of u was stored in the last 30 s issues a new network request.
C1_CachedWithinTTL ==
  \A j \in 1..Len(calls) :
    /\ FreshBefore(j) # {} =>
         /\ calls[j].status = "hit" /\ ~calls[j].req
         /\ \E i \in FreshBefore(j) : calls[j].value = calls[i].value
         /\ \A i \in FreshBefore(j) :
              calls[i].req => Cardinality({k \in {i, j} : calls[k].req}) = 1
    /\ FreshBefore(j) = {} => calls[j].req /\ calls[j].status # "hit"

\* C1 witness: one stored fetch, a later call within the TTL served from the
\* cache, and a call 30 s or more after the fetch that requests again.
C1_Witness ==
  \E i, j, k \in 1..Len(calls) :
    /\ i \in FreshBefore(j) /\ calls[j].status = "hit"
    /\ i \in StoredBefore(k) /\ FreshBefore(k) = {} /\ calls[k].req
    /\ calls[k].at - calls[i].doneAt = CACHE_TTL

\* C2: when apiGET(u) is called while no entry for u is cached and an earlier
\* request for u is still in flight, the new caller issues its own network
\* request too: the two calls make two requests, none is coalesced.
C2_NoCoalescing ==
  \A j \in 1..Len(calls) : \A i \in calls[j].inflight :
    StoredBefore(j) = {} =>
      /\ calls[i].req /\ calls[j].req
      /\ Cardinality({k \in {i, j} : calls[k].req}) = 2

\* C2 witness: two requests for the same uncached URL in flight together.
C2_Witness ==
  \E j \in 1..Len(calls) : \E i \in calls[j].inflight :
    /\ StoredBefore(j) = {}
    /\ calls[i].status = "pending" /\ calls[j].status = "pending"

CacheInit ==
  /\ clock = 0
  /\ cache = [u \in URLs |-> NoEntry]
  /\ calls = <<>>

NextCache ==
  \/ \E u \in URLs : ApiGetCall(u)
  \/ \E i \in 1..Len(calls), d \in Payloads : FetchResolve(i, d)
  \/ \E i \in 1..Len(calls) : FetchReject(i)
  \/ \E d \in TimeSteps : Advance(d)

(***************************************************************************)
(* 4.2  Data fetchers (lib/realTimeData.ts)                                *)
(***************************************************************************)

\* What the upstream request of a fetcher may end with: the fetch rejects, the
\* status is not 2xx, the body is not JSON, or the body is JSON of some shape
\* (null, a string or number, an object, an array, an array holding a null
\* item, an object that
\* wraps the array under the fetcher's key: {signals: [...]}, {insights: [...]}).
Outcomes ==
  {"network_error", "http_error", "bad_json", "null", "object", "empty_array",
   "array", "array_bad_item", "wrapped_array", "primitive"}
\* Length of a non-empty array body.
ArrayLen == 2

Fetchers == {"stock", "market", "news", "signals", "sentiment", "insights"}
Symbols == {"AAPL", "TCS"}
Limits == {-1, 0, 2}
NoArg == [sym |-> "-", lim |-> 0]
\* The arguments a fetcher is called with (fetchTechnicalSignals' symbol is optional).
Args(kind) ==
  CASE kind = "stock" -> {[sym |-> s, lim |-> 0] : s \in Symbols}
    [] kind = "news" -> {[sym |-> "-", lim |-> l] : l \in Limits}
    [] kind = "signals" -> {NoArg} \cup {[sym |-> s, lim |-> 0] : s \in Symbols}
    [] OTHER -> {NoArg}

\* The URL a fetcher requests.
FetchUrl(kind, arg) ==
  CASE kind = "stock" -> <<"/stocks/", arg.sym>>
    [] kind = "market" -> <<"/market/overview">>
    [] kind = "news" -> <<"/news?limit=", arg.lim>>
    [] kind = "signals" -> IF arg.sym = "-" THEN <<"/signals">> ELSE <<"/signals?symbol=", arg.sym>>
    [] kind = "sentiment" -> <<"/sentiment">>
    [] OTHER -> <<"/ai/insights">>

\* A fetcher's value: where it comes from and how many items it holds (1 for
\* the object-valued fetchers).
Live(n, arg) == [src |-> "live", size |-> n, of |-> arg]
Mock(n, arg) == [src |-> "mock", size |-> n, of |-> arg]
\* An object whose every field was coalesced with its default (x || default).
Defaults(arg) == [src |-> "defaults", size |-> 1, of |-> arg]
NullData == [src |-> "null", size |-> 0, of |-> NoArg]
EmptyList == [src |-> "init", size |-> 0, of |-> NoArg]

Threw == [threw |-> TRUE, data |-> NullData]
Returned(d) == [threw |-> FALSE, data |-> d]

\* fetch() rejected, !response.ok, or response.json() rejected.
RequestFailed(o) == o \in {"network_error", "http_error", "bad_json"}

\* generateMockNews(limit): Array.from({length: limit}).
MockNewsLen(limit) == IF limit > 0 THEN limit ELSE 0
\* generateMockSignals() and generateMockInsights() hold three entries each.
MOCK_SIGNALS_LEN == 3
MOCK_INSIGHTS_LEN == 3

\* The try block of an object-valued fetcher (fetchStockData, fetchMarketData,
\* fetchSentimentData): reading a field of null throws, the fields any other
\* JSON value lacks are coalesced with defaults.
TryObject(arg, o) ==
  CASE RequestFailed(o) \/ o = "null" -> Threw
    [] o \in {"object", "wrapped_array"} -> Returned(Live(1, arg))
    [] OTHER -> Returned(Defaults(arg))

\* The try block of fetchNews: data.map throws unless data is an array, and
\* the mapper throws on a null item.
TryNews(arg, o) ==
  CASE o = "array" -> Returned(Live(ArrayLen, arg))
    [] o = "empty_array" -> Returned(Live(0, arg))
    [] OTHER -> Threw

\* The try block of fetchTechnicalSignals / fetchAIInsights:
\* list = data.<key> || data; an array is mapped, anything else returns the mock.
TryKeyed(arg, o, mockLen) ==
  CASE RequestFailed(o) \/ o = "null" \/ o = "array_bad_item" -> Threw
    [] o \in {"array", "wrapped_array"} -> Returned(Live(ArrayLen, arg))
    [] o = "empty_array" -> Returned(Live(0, arg))
    [] OTHER -> Returned(Mock(mockLen, arg))

TryBlock(kind, arg, o) ==
  CASE kind \in {"stock", "market", "sentiment"} -> TryObject(arg, o)
    [] kind = "news" -> TryNews(arg, o)
    [] kind = "signals" -> TryKeyed(arg, o, MOCK_SIGNALS_LEN)
    [] OTHER -> TryKeyed(arg, o, MOCK_INSIGHTS_LEN)

\* The catch block: the mock fallback of each fetcher.
CatchBlock(kind, arg) ==
  CASE kind \in {"stock", "market", "sentiment"} -> Mock(1, arg)
    [] kind = "news" -> Mock(MockNewsLen(arg.lim), arg)
    [] kind = "signals" -> Mock(MOCK_SIGNALS_LEN, arg)
    [] OTHER -> Mock(MOCK_INSIGHTS_LEN, arg)

\* A fetcher as a whole: try { ... } catch { return mock }.
FetchResultRethrow(kind, arg, o) ==
  LET t == TryBlock(kind, arg, o) IN
  IF t.threw THEN [rejected |-> TRUE, data |-> NullData]
  ELSE [rejected |-> FALSE, data |-> t.data]
FetchResult(kind, arg, o) ==
  LET t == TryBlock(kind, arg, o) IN
  IF t.threw THEN [rejected |-> FALSE, data |-> CatchBlock(kind, arg)]
  ELSE [rejected |-> FALSE, data |-> t.data]

\* One call of a fetcher with an upstream outcome.
CallFetcher(kind, arg, o) ==
  /\ fName' = kind
  /\ fArg' = arg
  /\ fOutcome' = o
  /\ fResult' = FetchResult(kind, arg, o)
  /\ UNCHANGED nonFetcherVars

FetcherInit ==
  /\ fName = "none"
  /\ fArg = NoArg
  /\ fOutcome = "none"
  /\ fResult = [rejected |-> FALSE, data |-> NullData]

NextFetchers ==
  \E kind \in Fetchers : \E arg \in Args(kind) : \E o \in Outcomes : CallFetcher(kind, arg, o)

(***************************************************************************)
(* Properties of the data fetchers                                         *)
(***************************************************************************)

\* The outcomes in which the try block of a fetcher throws.
Throwing(kind, arg, o) == TryBlock(kind, arg, o).threw

\* C7 as stated: each fetcher resolves in every outcome and never rejects, on
\* failure it returns non-empty mock data, and the caller never receives an
\* empty or missing result.
C7_NeverEmpty ==
  fName # "none" =>
    /\ ~fResult.rejected
    /\ fResult.data.size > 0
    /\ RequestFailed(fOutcome) => fResult.data.src = "mock"

\* C7 amended: each fetcher resolves in every outcome and never rejects, and
\* its value is never missing. When the request fails (network failure,
\* non-2xx status, non-JSON body) or reading the body throws, the value is the
\* fetcher's mock data: one object, three signals or insights, `limit` news
\* items. The value is empty only when that mock is fetchNews's with
\* limit <= 0, or when the upstream array itself is empty.
C7_AlwaysResolves ==
  fName # "none" =>
    /\ ~fResult.rejected
    /\ fResult.data.src \in {"live", "mock", "defaults"}
    /\ (RequestFailed(fOutcome) \/ Throwing(fName, fArg, fOutcome)) =>
         /\ fResult.data.src = "mock"
         /\ fResult.data.size =
              CASE fName = "news" -> MockNewsLen(fArg.lim)
                [] fName = "signals" -> MOCK_SIGNALS_LEN
                [] fName = "insights" -> MOCK_INSIGHTS_LEN
                [] OTHER -> 1
    /\ fResult.data.size = 0 =>
         \/ fName = "news" /\ fResult.data.src = "mock" /\ fArg.lim <= 0
         \/ fName \in {"news", "signals", "insights"} /\ fOutcome = "empty_array"
                /\ fResult.data.src = "live"

\* C7 witness: fetchNews whose request failed returned its non-empty mock list.
C7_Witness ==
  /\ fName = "news" /\ fOutcome = "network_error"
  /\ fResult.data.src = "mock" /\ fResult.data.size > 0 /\ ~fResult.rejected

(***************************************************************************)
(* 4.2  Polling hooks (useStockData, useMarketData, useNews) and the       *)
(* widgets that poll the same way (MarketSignals)                          *)
(***************************************************************************)

\* Refresh intervals in ms: the hooks' default, MarketSignals' fixed interval.
DEFAULT_REFRESH == 30000
SIGNALS_REFRESH == 60000

\* At most this many fetches of one poller are followed while in flight.
MaxInflight == 2

Pollers == {"stock", "market", "news", "signals"}
\* refreshInterval values a caller may pass.
Intervals(kind) ==
  IF kind = "signals" THEN {SIGNALS_REFRESH} ELSE {DEFAULT_REFRESH, SIGNALS_REFRESH}
\* The arguments a poller is mounted with.
PollerArgs(kind) ==
  CASE kind = "signals" -> {NoArg}
    [] kind = "news" -> {a \in Args(kind) : a.lim >= 0}
    [] OTHER -> Args(kind)
\* How the request of a poller's fetch may end: failures, a body that makes
\* the fetcher throw, and bodies it maps.
PollerOutcomes == {"network_error", "http_error", "null", "array", "empty_array"}
\* Amounts of time that may pass between two events.
TickSteps == {DEFAULT_REFRESH}

\* useState's initial values: data is null (an empty list in useNews and the
\* widgets), loading is true, error is null.
InitialData(kind) == IF kind \in {"news", "signals"} THEN EmptyList ELSE NullData
NoError == "null"

RemoveAt(s, i) == SubSeq(s, 1, i - 1) \o SubSeq(s, i + 1, Len(s))
Min(S) == CHOOSE x \in S : \A y \in S : x <= y

\* setInterval(fetchData, refreshInterval): the callback closes over the
\* arguments of the render that ran the effect.
SetInterval(ts, arg, period) == Append(ts, [period |-> period, left |-> period, arg |-> arg])
\* The effect's cleanup, clearInterval(interval), removes the timer the effect made.
ClearIntervalLeak(ts) == ts
ClearInterval(ts) == IF ts = <<>> THEN ts ELSE SubSeq(ts, 1, Len(ts) - 1)

\* fetchData() up to its await: one request to the fetcher's URL.
StartFetch(fs, arg, by) ==
  Append(fs, [url |-> FetchUrl(hKind, arg), arg |-> arg, by |-> by, live |-> TRUE])

\* The component mounts: initial state, then the effect runs fetchData() and
\* starts the interval.
Mount(arg, period) ==
  /\ ~hMounted
  /\ Len(fetches) < MaxInflight
  /\ hMounted' = TRUE
  /\ hArg' = arg
  /\ hInterval' = period
  /\ hData' = InitialData(hKind)
  /\ hLoading' = TRUE
  /\ hError' = NoError
  /\ fetches' = StartFetch(fetches, arg, "effect")
  /\ timers' = SetInterval(timers, arg, period)
  /\ hOp' = "mount"
  /\ UNCHANGED <<hKind, hLast>>
  /\ UNCHANGED nonHookVars

\* symbol / limit / refreshInterval change: the effect's cleanup runs, then
\* the effect again.
ChangeDeps(arg, period) ==
  /\ hMounted
  /\ hKind # "signals"
  /\ <<arg, period>> # <<hArg, hInterval>>
  /\ Len(fetches) < MaxInflight
  /\ hArg' = arg
  /\ hInterval' = period
  /\ hError' = NoError
  /\ fetches' = StartFetch(fetches, arg, "effect")
  /\ timers' = SetInterval(ClearInterval(timers), arg, period)
  /\ hOp' = "deps"
  /\ UNCHANGED <<hKind, hMounted, hData, hLoading, hLast>>
  /\ UNCHANGED nonHookVars

\* The component unmounts: the cleanup runs; fetches in flight are not
\* aborted, their setState calls no longer have an effect.
Unmount ==
  /\ hMounted
  /\ hMounted' = FALSE
  /\ timers' = ClearInterval(timers)
  /\ fetches' = [i \in 1..Len(fetches) |-> [fetches[i] EXCEPT !.live = FALSE]]
  /\ hData' = InitialData(hKind)
  /\ hLoading' = TRUE
  /\ hError' = NoError
  /\ hOp' = "unmount"
  /\ UNCHANGED <<hKind, hArg, hInterval, hLast>>
  /\ UNCHANGED nonHookVars

\* Time passes, up to the moment the next timer is due.
Tick(d) ==
  /\ timers # <<>>
  /\ d <= Min({timers[i].left : i \in 1..Len(timers)})
  /\ timers' = [i \in 1..Len(timers) |-> [timers[i] EXCEPT !.left = @ - d]]
  /\ hOp' = "tick"
  /\ UNCHANGED <<hKind, hMounted, hArg, hInterval, hData, hLoading, hError, fetches, hLast>>
  /\ UNCHANGED nonHookVars

\* An interval timer is due: it calls fetchData and is due again one period later.
TimerFire(i) ==
  /\ timers[i].left = 0
  /\ Len(fetches) < MaxInflight
  /\ timers' = [timers EXCEPT ![i].left = timers[i].period]
  /\ fetches' = StartFetch(fetches, timers[i].arg, "timer")
  /\ hError' = NoError
  /\ hOp' = "timer"
  /\ UNCHANGED <<hKind, hMounted, hArg, hInterval, hData, hLoading, hLast>>
  /\ UNCHANGED nonHookVars

\* The caller invokes the returned refetch, which is fetchData itself.
RefetchResetsTimer ==
  /\ hMounted
  /\ Len(fetches) < MaxInflight
  /\ fetches' = StartFetch(fetches, hArg, "refetch")
  /\ timers' = SetInterval(ClearInterval(timers), hArg, hInterval)
  /\ hError' = NoError
  /\ hOp' = "refetch"
  /\ UNCHANGED <<hKind, hMounted, hArg, hInterval, hData, hLoading, hLast>>
  /\ UNCHANGED nonHookVars

Refetch ==
  /\ hMounted
  /\ Len(fetches) < MaxInflight
  /\ fetches' = StartFetch(fetches, hArg, "refetch")
  /\ hError' = NoError
  /\ hOp' = "refetch"
  /\ UNCHANGED <<hKind, hMounted, hArg, hInterval, hData, hLoading, timers, hLast>>
  /\ UNCHANGED nonHookVars

\* What fetchData does with the fetcher's promise: setData on a value,
\* setError on a rejection, setLoading(false) in both cases.
Settle(r) ==
  /\ IF r.rejected
     THEN hError' = "error" /\ UNCHANGED hData
     ELSE hData' = r.data /\ UNCHANGED hError
  /\ hLoading' = FALSE

\* The upstream request of fetch i ends with outcome o; the setState calls of
\* an unmounted instance ("orphan") have no effect.
CompleteBackoff(i, o) ==
  /\ i \in 1..Len(fetches)
  /\ fetches' = RemoveAt(fetches, i)
  /\ IF fetches[i].live
     THEN Settle(FetchResult(hKind, fetches[i].arg, o))
     ELSE UNCHANGED <<hData, hError, hLoading>>
  /\ hLast' = IF fetches[i].live
              THEN [failed |-> RequestFailed(o), by |-> fetches[i].by]
              ELSE hLast
  /\ hOp' = IF fetches[i].live THEN "complete" ELSE "orphan"
  /\ timers' = IF RequestFailed(o)
               THEN [k \in 1..Len(timers) |->
                       [timers[k] EXCEPT !.period = 2 * @, !.left = 2 * timers[k].period]]
               ELSE timers
  /\ UNCHANGED <<hKind, hMounted, hArg, hInterval>>
  /\ UNCHANGED nonHookVars

Complete(i, o) ==
  /\ i \in 1..Len(fetches)
  /\ fetches' = RemoveAt(fetches, i)
  /\ IF fetches[i].live
     THEN Settle(FetchResult(hKind, fetches[i].arg, o))
     ELSE UNCHANGED <<hData, hError, hLoading>>
  /\ hLast' = IF fetches[i].live
              THEN [failed |-> RequestFailed(o), by |-> fetches[i].by]
              ELSE hLast
  /\ hOp' = IF fetches[i].live THEN "complete" ELSE "orphan"
  /\ UNCHANGED <<hKind, hMounted, hArg, hInterval, timers>>
  /\ UNCHANGED nonHookVars

NoLast == [failed |-> FALSE, by |-> "none"]

HookInit ==
  /\ hKind \in Pollers
  /\ hMounted = FALSE
  /\ hArg = NoArg
  /\ hInterval = DEFAULT_REFRESH
  /\ hData = InitialData(hKind)
  /\ hLoading = TRUE
  /\ hError = NoError
  /\ timers = <<>>
  /\ fetches = <<>>
  /\ hOp = "init"
  /\ hLast = NoLast

(***************************************************************************)
(* Properties of the polling hooks                                         *)
(***************************************************************************)

\* The fetch fetchData starts for the arguments arg.
NewFetch(arg, by) == [url |-> FetchUrl(hKind, arg), arg |-> arg, by |-> by, live |-> TRUE]

\* Exactly one interval timer per mounted instance, none otherwise; it has the
\* current refreshInterval and fetches for the current symbol / limit.
OneTimer ==
  IF hMounted
  THEN Len(timers) = 1 /\ timers[1].period = hInterval /\ timers[1].arg = hArg
  ELSE timers = <<>>

\* C3: a polling hook starts a fetch immediately on mount (and when symbol,
\* limit or interval change), then one fetch each time refreshInterval has
\* elapsed while it stays mounted; one interval timer exists per mounted
\* instance, and the timer starts no fetch after unmount.
C3_PollingLifecycle ==
  /\ []OneTimer
  /\ [][/\ hOp' \in {"mount", "deps"} =>
             /\ fetches' = Append(fetches, NewFetch(hArg', "effect"))
             /\ Len(timers') = 1 /\ timers'[1].left = hInterval'
        /\ hOp' = "timer" =>
             /\ hMounted /\ Len(timers) = 1
             /\ timers[1].left = 0 /\ timers'[1].left = hInterval
             /\ fetches' = Append(fetches, NewFetch(hArg, "timer"))
        /\ hOp' = "tick" =>
             \A i \in 1..Len(timers) : timers'[i].left >= 0 /\ timers'[i].left < timers[i].left
        /\ hOp' = "unmount" => timers' = <<>>]_vars

\* C3 witness: mounted, the interval has elapsed twice and the timer has
\* started a fetch, the first one having completed.
C3_Witness ==
  /\ hMounted /\ hOp = "timer" /\ hLast.by = "timer"
  /\ Len(timers) = 1 /\ timers[1].left = timers[1].period

\* C4: one call of refetch starts exactly one more fetch, to the URL the
\* interval timer fetches, and leaves the interval timer as it is.
C4_RefetchOnce ==
  [][hOp' = "refetch" =>
       /\ Len(timers) = 1
       /\ fetches' = Append(fetches, NewFetch(timers[1].arg, "refetch"))
       /\ timers' = timers]_vars

\* C4 witness: refetch was called between two ticks of the timer while another
\* fetch was in flight.
C4_Witness ==
  /\ hOp = "refetch" /\ Len(fetches) = 2 /\ fetches[2].by = "refetch"
  /\ Len(timers) = 1 /\ timers[1].left < timers[1].period

\* C5: when a fetch of a mounted hook fails (network failure or non-2xx
\* response), error becomes non-null and data keeps its previous value.
C5_ErrorSetStaleKept ==
  [][(hOp' = "complete" /\ hLast'.failed) =>
       (hError' # NoError /\ hData' = hData)]_vars

\* C6: while a poller stays mounted with the same arguments, the timer starts
\* a fetch again and again, whatever the earlier fetches ended with; the end
\* of a fetch, failed or not, never changes the timer, whose period stays the
\* refreshInterval.
C6_RetryForever ==
  /\ []<>(~hMounted \/ hOp \in {"timer", "deps"})
  /\ [][hOp' \in {"complete", "orphan"} => timers' = timers]_vars
  /\ [](hMounted => \A i \in 1..Len(timers) : timers[i].period = hInterval)

\* C6 witness: a timer-driven fetch has failed and the timer has started the
\* next one.
C6_Witness ==
  /\ hMounted /\ hOp = "timer"
  /\ hLast.failed /\ hLast.by = "timer"

NextHook ==
  \/ \E arg \in PollerArgs(hKind), n \in Intervals(hKind) : Mount(arg, n)
  \/ \E arg \in PollerArgs(hKind), n \in Intervals(hKind) : ChangeDeps(arg, n)
  \/ Unmount
  \/ \E d \in TickSteps : Tick(d)
  \/ \E i \in 1..Len(timers) : TimerFire(i)
  \/ Refetch
  \/ \E i \in 1..Len(fetches), o \in PollerOutcomes : Complete(i, o)

(***************************************************************************)
(* 4.3  Widget layout store (zustand create + persist, 'widget-store')     *)
(***************************************************************************)

\* The browser tabs that share localStorage.
Tabs == {"A", "B"}
\* Store operations followed in one run, page loads included.
MaxStoreOps == 5
\* Longest activeWidgets list followed.
MaxWidgets == 5

WidgetTypes ==
  {"market-overview", "portfolio-performance", "ai-insights", "news-feed",
   "watchlist", "order-book", "sentiment-analysis", "market-signals"}
\* The widgets passed to addWidget / removeWidget.
WidgetInputs == {"news-feed", "watchlist"}

ThemeKeys == {"background", "primaryGradient", "secondaryGradient", "accentColor"}
\* Theme values: a key's default string, another string, or undefined.
defaultTheme == [k \in ThemeKeys |-> "default"]
defaultWidgets == <<"market-overview", "portfolio-performance", "ai-insights", "news-feed">>
\* The Partial<ThemeConfig> values passed to updateTheme.
ThemePartials ==
  {[accentColor |-> "custom"],
   [background |-> "custom", accentColor |-> "undefined"],
   [k \in {} |-> "custom"]}

\* The state creator's initial state.
InitialStore == [activeWidgets |-> defaultWidgets, theme |-> defaultTheme]

\* theme[k] as JavaScript reads it: undefined when the key is missing.
ThemeGet(theme, k) == IF k \in DOMAIN theme THEN theme[k] ELSE "undefined"
SameTheme(t1, t2) == \A k \in ThemeKeys : ThemeGet(t1, k) = ThemeGet(t2, k)

\* { ...a, ...b }
Spread(a, b) == [k \in DOMAIN a \cup DOMAIN b |-> IF k \in DOMAIN b THEN b[k] ELSE a[k]]

\* JSON.stringify / JSON.parse of an object: keys whose value is undefined are dropped.
JsonObject(o) == [k \in {x \in DOMAIN o : o[x] # "undefined"} |-> o[k]]

\* The store's actions as functions of the state.
AddState(st, w) == [st EXCEPT !.activeWidgets = Append(st.activeWidgets, w)]
RemoveState(st, w) ==
  [st EXCEPT !.activeWidgets = SelectSeq(st.activeWidgets, LAMBDA x : x # w)]
ReorderStateAppend(st, ws) == [st EXCEPT !.activeWidgets = st.activeWidgets \o ws]
ReorderState(st, ws) == [st EXCEPT !.activeWidgets = ws]
ThemeStateReplace(st, p) == [st EXCEPT !.theme = p]
ThemeState(st, p) == [st EXCEPT !.theme = Spread(st.theme, p)]

\* What persist writes under 'widget-store': the state without its functions,
\* with the version.
Absent == [version |-> -1]
Blob(st) ==
  [state |-> [activeWidgets |-> st.activeWidgets, theme |-> JsonObject(st.theme)],
   version |-> 0]

\* persist's setItem after a set: the item is overwritten with this tab's state.
SetItemKeep(cur, st) == IF cur = Absent THEN Blob(st) ELSE cur
SetItemMerge(cur, st) ==
  IF cur = Absent THEN Blob(st)
  ELSE [state |-> [activeWidgets |-> st.activeWidgets,
                   theme |-> Spread(cur.state.theme, JsonObject(st.theme))],
        version |-> 0]
SetItem(cur, st) == Blob(st)

\* persist's hydration: the persisted state is merged over the initial one
\* (a shallow merge: persisted activeWidgets and theme replace the defaults).
HydrateDefaults(cur) == InitialStore
Hydrate(cur) ==
  IF cur = Absent THEN InitialStore
  ELSE [activeWidgets |-> cur.state.activeWidgets, theme |-> cur.state.theme]

Reverse(s) == [i \in 1..Len(s) |-> s[Len(s) + 1 - i]]
Rotate(s) == IF s = <<>> THEN s ELSE Append(Tail(s), Head(s))
\* The orders passed to reorderWidgets: rearrangements of the current list
\* (what the drag handler computes) and lists unrelated to it.
ReorderInputs(cur) ==
  {Reverse(cur), Rotate(cur), <<>>, <<"watchlist", "market-overview">>}

NoOp == [op |-> "none", tab |-> "-", w |-> "-", ws |-> <<>>, p |-> <<>>]
Op(name, t) == [NoOp EXCEPT !.op = name, !.tab = t]
WriteOps == {"add", "remove", "reorder", "theme"}

\* Tab t loads (or reloads) the page: the store is created and hydrated; some
\* versions of the middleware write the hydrated state back.
LoadPage(t, writeBack) ==
  /\ sOps < MaxStoreOps
  /\ mem' = [mem EXCEPT ![t] = Hydrate(storage)]
  /\ open' = [open EXCEPT ![t] = TRUE]
  /\ storage' = IF writeBack THEN SetItem(storage, Hydrate(storage)) ELSE storage
  /\ sOp' = Op("load", t)
  /\ sOps' = sOps + 1
  /\ UNCHANGED nonStoreVars

AddWidget(t, w) ==
  /\ open[t] /\ sOps < MaxStoreOps
  /\ Len(mem[t].activeWidgets) < MaxWidgets
  /\ mem' = [mem EXCEPT ![t] = AddState(mem[t], w)]
  /\ storage' = SetItem(storage, AddState(mem[t], w))
  /\ sOp' = [Op("add", t) EXCEPT !.w = w]
  /\ sOps' = sOps + 1
  /\ UNCHANGED <<open, nonStoreVars>>

RemoveWidget(t, w) ==
  /\ open[t] /\ sOps < MaxStoreOps
  /\ mem' = [mem EXCEPT ![t] = RemoveState(mem[t], w)]
  /\ storage' = SetItem(storage, RemoveState(mem[t], w))
  /\ sOp' = [Op("remove", t) EXCEPT !.w = w]
  /\ sOps' = sOps + 1
  /\ UNCHANGED <<open, nonStoreVars>>

ReorderWidgets(t, ws) ==
  /\ open[t] /\ sOps < MaxStoreOps
  /\ mem' = [mem EXCEPT ![t] = ReorderState(mem[t], ws)]
  /\ storage' = SetItem(storage, ReorderState(mem[t], ws))
  /\ sOp' = [Op("reorder", t) EXCEPT !.ws = ws]
  /\ sOps' = sOps + 1
  /\ UNCHANGED <<open, nonStoreVars>>

UpdateTheme(t, p) ==
  /\ open[t] /\ sOps < MaxStoreOps
  /\ mem' = [mem EXCEPT ![t] = ThemeState(mem[t], p)]
  /\ storage' = SetItem(storage, ThemeState(mem[t], p))
  /\ sOp' = [Op("theme", t) EXCEPT !.p = p]
  /\ sOps' = sOps + 1
  /\ UNCHANGED <<open, nonStoreVars>>

(***************************************************************************)
(* Properties of the widget layout store                                   *)
(***************************************************************************)

\* Only tab t has loaded the page.
OnlyTab(t) == open[t] /\ \A u \in Tabs \ {t} : ~open[u]

\* C8: with one tab, after any sequence of addWidget, removeWidget,
\* reorderWidgets and updateTheme the persisted item holds the activeWidgets
\* order and the theme of the in-memory store, so a reload restores them (the
\* order last passed to reorderWidgets included); nothing is persisted only
\* while the store still holds its defaults.
C8_PersistRoundTrip ==
  \A t \in Tabs : OnlyTab(t) =>
    IF storage = Absent
    THEN mem[t] = InitialStore /\ sOp.op = "load"
    ELSE /\ storage.state.activeWidgets = mem[t].activeWidgets
         /\ SameTheme(storage.state.theme, mem[t].theme)
         /\ Hydrate(storage).activeWidgets = mem[t].activeWidgets
         /\ SameTheme(Hydrate(storage).theme, mem[t].theme)
         /\ sOp.op = "reorder" => Hydrate(storage).activeWidgets = sOp.ws

\* C8 witness: a reload has restored a reordered list and a changed theme.
C8_Witness ==
  /\ OnlyTab("A") /\ sOp = Op("load", "A")
  /\ mem["A"].activeWidgets = Reverse(defaultWidgets)
  /\ ~SameTheme(mem["A"].theme, defaultTheme)

\* C9: reorderWidgets(w) sets activeWidgets to exactly w whatever the list
\* was, and applying it again changes neither the store nor the persisted item.
C9_ReorderReplaces ==
  /\ sOp.op = "reorder" =>
       /\ mem[sOp.tab].activeWidgets = sOp.ws
       /\ ReorderState(mem[sOp.tab], sOp.ws) = mem[sOp.tab]
       /\ SetItem(storage, ReorderState(mem[sOp.tab], sOp.ws)) = storage
  /\ \A t \in Tabs : \A ws \in ReorderInputs(mem[t].activeWidgets) :
       /\ ReorderState(mem[t], ws).activeWidgets = ws
       /\ ReorderState(ReorderState(mem[t], ws), ws) = ReorderState(mem[t], ws)

\* C9 witness: a list unrelated to the previous one has replaced it.
C9_Witness ==
  /\ sOp.op = "reorder" /\ sOp.ws = <<"watchlist", "market-overview">>
  /\ mem[sOp.tab].activeWidgets = sOp.ws

\* C10: every write by a tab replaces the whole persisted item with that
\* tab's in-memory state and leaves the other tab's in-memory state as it is.
C10_LastWriterWins ==
  [][\A t \in Tabs :
       (sOps' = sOps + 1 /\ sOp'.tab = t /\ sOp'.op \in WriteOps) =>
         /\ storage' = Blob(mem'[t])
         /\ \A u \in Tabs \ {t} : mem'[u] = mem[u]]_vars

\* C10 witness: tab A changed and persisted its layout, then tab B wrote; the
\* item holds B's layout, A's change is gone from it and A still shows it.
C10_Witness ==
  /\ open["A"] /\ open["B"]
  /\ sOp.tab = "B" /\ sOp.op \in WriteOps
  /\ mem["A"].activeWidgets # defaultWidgets
  /\ storage = Blob(mem["B"])
  /\ storage.state.activeWidgets # mem["A"].activeWidgets

StoreInit ==
  /\ mem = [t \in Tabs |-> InitialStore]
  /\ open = [t \in Tabs |-> FALSE]
  /\ storage = Absent
  /\ sOp = NoOp
  /\ sOps = 0

\* C30: addWidget, removeWidget and reorderWidgets leave the theme as it is;
\* updateTheme(partial) leaves activeWidgets as it is, gives the keys present
\* in partial the values of partial, and keeps every other theme key.
C30_FrameEffects ==
  [][sOps' = sOps + 1 =>
       LET t == sOp'.tab IN
       /\ sOp'.op \in {"add", "remove", "reorder"} => mem'[t].theme = mem[t].theme
       /\ sOp'.op = "theme" =>
            /\ mem'[t].activeWidgets = mem[t].activeWidgets
            /\ \A k \in ThemeKeys :
                 ThemeGet(mem'[t].theme, k) =
                   IF k \in DOMAIN sOp'.p THEN sOp'.p[k] ELSE ThemeGet(mem[t].theme, k)]_vars

\* C30 witness: updateTheme({accentColor}) ran on a theme whose background
\* had been customised before, and the background is still the custom one.
C30_Witness ==
  /\ sOp.op = "theme" /\ sOp.p = [accentColor |-> "custom"]
  /\ ThemeGet(mem[sOp.tab].theme, "background") = "custom"
  /\ ThemeGet(mem[sOp.tab].theme, "accentColor") = "custom"
  /\ mem[sOp.tab].activeWidgets # defaultWidgets

NextStore ==
  \/ \E t \in Tabs, wb \in BOOLEAN : LoadPage(t, wb)
  \/ \E t \in Tabs, w \in WidgetInputs : AddWidget(t, w)
  \/ \E t \in Tabs, w \in WidgetInputs : RemoveWidget(t, w)
  \/ \E t \in Tabs : \E ws \in ReorderInputs(mem[t].activeWidgets) : ReorderWidgets(t, ws)
  \/ \E t \in Tabs, p \in ThemePartials : UpdateTheme(t, p)

(***************************************************************************)
(* Watchlist widget (components/widgets/Watchlist.tsx)                     *)
(***************************************************************************)

\* Strings are sequences of one-character strings, so that trim(),
\* toUpperCase(), toLowerCase() and includes() are computed.
UpperChars == <<"A", "B", "C", "D", "E", "F", "G", "H", "I", "J", "K", "L", "M",
                "N", "O", "P", "Q", "R", "S", "T", "U", "V", "W", "X", "Y", "Z">>
LowerChars == <<"a", "b", "c", "d", "e", "f", "g", "h", "i", "j", "k", "l", "m",
                "n", "o", "p", "q", "r", "s", "t", "u", "v", "w", "x", "y", "z">>

ToUpperChar(c) ==
  IF \E i \in 1..Len(LowerChars) : LowerChars[i] = c
  THEN UpperChars[CHOOSE i \in 1..Len(LowerChars) : LowerChars[i] = c]
  ELSE c
ToLowerChar(c) ==
  IF \E i \in 1..Len(UpperChars) : UpperChars[i] = c
  THEN LowerChars[CHOOSE i \in 1..Len(UpperChars) : UpperChars[i] = c]
  ELSE c

\* String.prototype.toUpperCase / toLowerCase
ToUpperCase(str) == [i \in 1..Len(str) |-> ToUpperChar(str[i])]
ToLowerCase(str) == [i \in 1..Len(str) |-> ToLowerChar(str[i])]

\* String.prototype.trim
RECURSIVE TrimStart(_)
TrimStart(str) ==
  IF str # <<>> /\ Head(str) = " " THEN TrimStart(Tail(str)) ELSE str
RECURSIVE TrimEnd(_)
TrimEnd(str) ==
  IF str # <<>> /\ str[Len(str)] = " " THEN TrimEnd(SubSeq(str, 1, Len(str) - 1)) ELSE str
Trim(str) == TrimEnd(TrimStart(str))

\* Array.prototype.includes
Includes(list, x) == \E i \in 1..Len(list) : list[i] = x

\* The cap of addSymbol: watchlist.length < 10.
WATCHLIST_CAP == 10

\* Bounds of the Watchlist model: handlers run, length of the typed text.
MaxWatchOps == 4
MaxInput == 2

\* The characters typed into the input.
InputChars == {" ", "a", "B"}
RawInputs == UNION {[1..n -> InputChars] : n \in 0..MaxInput}

DEFAULT_WATCHLIST ==
  << <<"A", "A", "P", "L">>, <<"M", "S", "F", "T">>, <<"G", "O", "O", "G", "L">>,
     <<"A", "M", "Z", "N">>, <<"N", "V", "D", "A">> >>

\* Symbols found in a stored list: "A" and "X1" .. "X10".
SymA == <<"A">>
Digits == <<"1", "2", "3", "4", "5", "6", "7", "8", "9", "10">>
SymX(i) == <<"X", Digits[i]>>
ListOf(n) == <<SymA>> \o [i \in 1..(n - 1) |-> SymX(i)]

\* The localStorage item: missing, the empty string, text that is not JSON,
\* or the JSON text of an array of strings (pretty-printed by a user's edit or
\* compact as JSON.stringify writes it).
NoItem == [kind |-> "absent"]
EmptyText == [kind |-> "empty"]
NotJson == [kind |-> "malformed"]
JsonText(list, pretty) == [kind |-> "json", value |-> list, pretty |-> pretty]

\* JSON.stringify(watchlist)
Stringify(list) == JsonText(list, FALSE)

\* What localStorage['acera-watchlist'] holds when the page opens.
StoredItems ==
  {NoItem, EmptyText, NotJson,
   JsonText(<<>>, FALSE),
   JsonText(<<SymA>>, TRUE),
   JsonText(<<SymA, SymA>>, FALSE),
   JsonText(ListOf(WATCHLIST_CAP - 1), FALSE),
   JsonText(ListOf(WATCHLIST_CAP), TRUE),
   JsonText(ListOf(WATCHLIST_CAP + 1), FALSE)}

\* The load effect: getItem, JSON.parse, the defaults when the item is
\* missing, falsy or not parseable.
LoadWatchlist(item) ==
  IF item.kind = "json" THEN item.value ELSE DEFAULT_WATCHLIST

\* The save effect: setItem unless the list is empty.
SaveWatchlist(item, list) ==
  IF Len(list) > 0 THEN Stringify(list) ELSE item

\* The list part of the render.
RenderTextAlways(list) == [rows |-> list, emptyText |-> TRUE]
Render(list) == [rows |-> list, emptyText |-> (Len(list) = 0)]
NoView == [rows |-> <<>>, emptyText |-> FALSE]

\* addSymbol on the state (list, text, adding).
AddSymbolNoCheck(list, text, adding) ==
  [watchlist |-> Append(list, ToUpperCase(Trim(text))), newSymbol |-> <<>>, isAdding |-> FALSE]
AddSymbolState(list, text, adding) ==
  LET symbol == ToUpperCase(Trim(text)) IN
  IF symbol # <<>> /\ ~Includes(list, symbol) /\ Len(list) < WATCHLIST_CAP
  THEN [watchlist |-> Append(list, symbol), newSymbol |-> <<>>, isAdding |-> FALSE]
  ELSE [watchlist |-> list, newSymbol |-> text, isAdding |-> adding]

\* removeSymbol
RemoveSymbolState(list, symbol) == SelectSeq(list, LAMBDA s : s # symbol)

\* A state change of the mounted widget: render, then the save effect.
Commit(list) ==
  /\ watchlist' = list
  /\ wView' = Render(list)
  /\ wStorage' = SaveWatchlist(wStorage, list)

\* Mount: first render with [], the load effect, the save effect of the empty
\* list (nothing written), the render of the loaded list and its save effect.
WatchMount ==
  /\ ~wMounted
  /\ wOps < MaxWatchOps
  /\ wMounted' = TRUE
  /\ Commit(LoadWatchlist(wStorage))
  /\ newSymbol' = <<>>
  /\ isAdding' = FALSE
  /\ wOp' = "mount"
  /\ wOps' = wOps + 1
  /\ UNCHANGED nonWatchVars

\* The page is closed or reloaded.
WatchUnmount ==
  /\ wMounted
  /\ wOps < MaxWatchOps
  /\ wMounted' = FALSE
  /\ watchlist' = <<>>
  /\ newSymbol' = <<>>
  /\ isAdding' = FALSE
  /\ wView' = NoView
  /\ wOp' = "unmount"
  /\ wOps' = wOps + 1
  /\ UNCHANGED <<wStorage, nonWatchVars>>

\* The "Add Symbol" button, disabled at 10 entries.
StartAdding ==
  /\ wMounted /\ ~isAdding
  /\ Len(watchlist) < WATCHLIST_CAP
  /\ wOps < MaxWatchOps
  /\ isAdding' = TRUE
  /\ wOp' = "start"
  /\ wOps' = wOps + 1
  /\ UNCHANGED <<watchlist, newSymbol, wMounted, wStorage, wView, nonWatchVars>>

\* onChange of the input.
TypeSymbol(text) ==
  /\ wMounted /\ isAdding
  /\ text # newSymbol
  /\ wOps < MaxWatchOps
  /\ newSymbol' = text
  /\ wOp' = "type"
  /\ wOps' = wOps + 1
  /\ UNCHANGED <<watchlist, isAdding, wMounted, wStorage, wView, nonWatchVars>>

\* Enter in the input (or the Add button): addSymbol.
AddSymbol ==
  /\ wMounted /\ isAdding
  /\ wOps < MaxWatchOps
  /\ LET st == AddSymbolState(watchlist, newSymbol, isAdding) IN
       /\ newSymbol' = st.newSymbol
       /\ isAdding' = st.isAdding
       /\ IF st.watchlist # watchlist
          THEN Commit(st.watchlist)
          ELSE UNCHANGED <<watchlist, wView, wStorage>>
  /\ wOp' = "add"
  /\ wOps' = wOps + 1
  /\ UNCHANGED <<wMounted, nonWatchVars>>

\* Escape in the input, or the Cancel button.
CancelAdding ==
  /\ wMounted /\ isAdding
  /\ wOps < MaxWatchOps
  /\ isAdding' = FALSE
  /\ newSymbol' = <<>>
  /\ wOp' = "cancel"
  /\ wOps' = wOps + 1
  /\ UNCHANGED <<watchlist, wMounted, wStorage, wView, nonWatchVars>>

\* The X button of a row: removeSymbol(symbol).
RemoveSymbol(i) ==
  /\ wMounted
  /\ i \in 1..Len(watchlist)
  /\ wOps < MaxWatchOps
  /\ Commit(RemoveSymbolState(watchlist, watchlist[i]))
  /\ wOp' = "remove"
  /\ wOps' = wOps + 1
  /\ UNCHANGED <<newSymbol, isAdding, wMounted, nonWatchVars>>

NoDuplicates(list) == \A i, j \in 1..Len(list) : list[i] = list[j] => i = j

\* Lists addSymbol may run on.
ContractLists ==
  {<<>>, <<SymA>>, DEFAULT_WATCHLIST, ListOf(WATCHLIST_CAP - 1), ListOf(WATCHLIST_CAP)}

\* What addSymbol has to do on (list, text, adding).
AddSymbolContract(list, text, adding, st) ==
  LET symbol == ToUpperCase(Trim(text)) IN
  IF symbol = <<>> \/ Includes(list, symbol) \/ Len(list) >= WATCHLIST_CAP
  THEN st = [watchlist |-> list, newSymbol |-> text, isAdding |-> adding]
  ELSE /\ Len(st.watchlist) = Len(list) + 1
       /\ SubSeq(st.watchlist, 1, Len(list)) = list
       /\ st.watchlist[Len(list) + 1] = symbol
       /\ Head(symbol) # " " /\ symbol[Len(symbol)] # " "
       /\ \A k \in 1..Len(symbol) : symbol[k] \notin {"a", "b"}

\* C11: addSymbol leaves the watchlist, the input text and the adding flag
\* unchanged when the trimmed, upper-cased input is empty, is already in the
\* list, or the list already has 10 entries; otherwise it appends exactly that
\* normalized symbol at the end.  Stated of every addSymbol step the widget
\* takes and of addSymbol on every list of ContractLists with every input.
C11_AddSymbolContract ==
  /\ [][wOp' = "add" =>
          AddSymbolContract(watchlist, newSymbol, isAdding,
            [watchlist |-> watchlist', newSymbol |-> newSymbol', isAdding |-> isAdding'])]_vars
  /\ [](\A list \in ContractLists, text \in RawInputs :
          AddSymbolContract(list, text, TRUE, AddSymbolState(list, text, TRUE)))

\* C11 witness: addSymbol ran on an input whose normal form was already in a
\* list of 9 entries and changed nothing, the typed text being lower case.
C11_Witness ==
  /\ wOp = "add" /\ isAdding
  /\ newSymbol = <<"a", " ">>
  /\ Includes(watchlist, SymA)
  /\ Len(watchlist) = WATCHLIST_CAP - 1

\* C12 (as claimed): in every state of the mounted widget the watchlist has at
\* most 10 entries and no duplicate symbol.
C12_CapAndUnique ==
  wMounted => (Len(watchlist) <= WATCHLIST_CAP /\ NoDuplicates(watchlist))

\* C13 (as claimed): after addSymbol or removeSymbol the stored JSON array
\* equals the in-memory watchlist.
C13_StorageMirrors ==
  (wMounted /\ wOp \in {"add", "remove"}) =>
    (wStorage.kind = "json" /\ wStorage.value = watchlist)

\* C14: the widget shows "No stocks in watchlist" exactly when its watchlist
\* is empty, and one row per symbol, in order, otherwise.
C14_EmptyText ==
  wMounted =>
    /\ wView.emptyText <=> (Len(watchlist) = 0)
    /\ Len(wView.rows) = Len(watchlist)
    /\ \A i \in 1..Len(watchlist) : wView.rows[i] = watchlist[i]

\* C14 witness: the last symbol was removed and the text is shown.
C14_Witness ==
  /\ wMounted /\ wOp = "remove"
  /\ watchlist = <<>>
  /\ wView.emptyText

WatchIdle ==
  /\ watchlist = <<>>
  /\ newSymbol = <<>>
  /\ isAdding = FALSE
  /\ wMounted = FALSE
  /\ wStorage = NoItem
  /\ wView = NoView
  /\ wOp = "none"
  /\ wOps = 0

WatchInit ==
  /\ watchlist = <<>>
  /\ newSymbol = <<>>
  /\ isAdding = FALSE
  /\ wMounted = FALSE
  /\ wStorage \in StoredItems
  /\ wView = NoView
  /\ wOp = "none"
  /\ wOps = 0

NextWatch ==
  \/ WatchMount
  \/ WatchUnmount
  \/ StartAdding
  \/ \E text \in RawInputs : TypeSymbol(text)
  \/ AddSymbol
  \/ CancelAdding
  \/ \E i \in 1..Len(watchlist) : RemoveSymbol(i)

(***************************************************************************)
(* searchStocks (lib/realTimeData.ts)                                      *)
(***************************************************************************)

\* Bound of the search model: length of the generated queries.
MaxQuery == 3

\* The characters of the generated queries, and the queries searched for.
QueryChars == {"a", "A", "m", "."}
QueryAAPL == <<"A", "A", "P", "L">>
Queries == UNION {[1..n -> QueryChars] : n \in 0..MaxQuery} \cup {QueryAAPL}

\* How the request to /search ends: fetch rejects, a non-2xx status, a body
\* that is not JSON, a JSON array of items, a JSON array holding null, or
\* JSON that is not an array.
SearchOutcomes ==
  {"network_error", "http_error", "bad_json", "array", "array_bad_item", "non_array"}

\* The mock list of the catch block (symbol and name of each entry).
mockResults ==
  <<[symbol |-> <<"A", "A", "P", "L">>,
      name |-> <<"A", "p", "p", "l", "e", " ", "I", "n", "c", ".">>],
     [symbol |-> <<"M", "S", "F", "T">>,
      name |-> <<"M", "i", "c", "r", "o", "s", "o", "f", "t", " ", "C", "o", "r", "p", ".">>],
     [symbol |-> <<"G", "O", "O", "G", "L">>,
      name |-> <<"A", "l", "p", "h", "a", "b", "e", "t", " ", "I", "n", "c", ".", " ", "C", "l", "a", "s", "s", " ", "A">>],
     [symbol |-> <<"A", "M", "Z", "N">>,
      name |-> <<"A", "m", "a", "z", "o", "n", ".", "c", "o", "m", " ", "I", "n", "c", ".">>],
     [symbol |-> <<"N", "V", "D", "A">>,
      name |-> <<"N", "V", "I", "D", "I", "A", " ", "C", "o", "r", "p", "o", "r", "a", "t", "i", "o", "n">>],
     [symbol |-> <<"T", "S", "L", "A">>,
      name |-> <<"T", "e", "s", "l", "a", " ", "I", "n", "c", ".">>],
     [symbol |-> <<"M", "E", "T", "A">>,
      name |-> <<"M", "e", "t", "a", " ", "P", "l", "a", "t", "f", "o", "r", "m", "s", " ", "I", "n", "c", ".">>]>>

\* The items of an upstream array, after data.map.
LiveResults == << [symbol |-> <<"Z">>, name |-> <<"Z", "e", "e">>] >>

\* String.prototype.includes, scanning the positions from the left.
RECURSIVE StrIncludesFrom(_, _, _)
StrIncludesFrom(hay, needle, k) ==
  IF k + Len(needle) > Len(hay) THEN FALSE
  ELSE IF SubSeq(hay, k + 1, k + Len(needle)) = needle THEN TRUE
  ELSE StrIncludesFrom(hay, needle, k + 1)
StrIncludes(hay, needle) == StrIncludesFrom(hay, needle, 0)

\* The filter predicate of the catch block.
MockMatchesCaseSensitive(stock, query) ==
  StrIncludes(stock.symbol, query) \/ StrIncludes(stock.name, query)
MockMatches(stock, query) ==
  \/ StrIncludes(ToLowerCase(stock.symbol), ToLowerCase(query))
  \/ StrIncludes(ToLowerCase(stock.name), ToLowerCase(query))

\* The catch block: mockResults.filter(...)
SearchCatch(query) == SelectSeq(mockResults, LAMBDA stock : MockMatches(stock, query))

\* What searchStocks(query) resolves with when its request ends with o.
SearchResult(query, o) ==
  CASE o \in {"network_error", "http_error", "bad_json", "array_bad_item"} -> SearchCatch(query)
    [] o = "array" -> LiveResults
    [] OTHER -> <<>>

\* A call that has not settled, and one that resolved with list.
NotSettled == [settled |-> FALSE]
Resolved(list) == [settled |-> TRUE, value |-> list]

SearchStocks ==
  /\ qResult = NotSettled
  /\ qResult' = Resolved(SearchResult(qQuery, qOutcome))
  /\ UNCHANGED <<qQuery, qOutcome, nonSearchVars>>

\* The request failed: no JSON answer with a 2xx status was read.
SearchFailed(o) == o \in {"network_error", "http_error", "bad_json"}

\* hay contains needle, ignoring case.
ContainsIgnoreCase(hay, needle) ==
  \E k \in 0..Len(hay) :
    /\ k + Len(needle) <= Len(hay)
    /\ \A j \in 1..Len(needle) : ToLowerChar(hay[k + j]) = ToLowerChar(needle[j])

\* The positions of the mock list whose symbol or name contains the query.
Hits(query) ==
  {i \in 1..Len(mockResults) :
     \/ ContainsIgnoreCase(mockResults[i].symbol, query)
     \/ ContainsIgnoreCase(mockResults[i].name, query)}

\* C15: when the search request fails, searchStocks(q) returns exactly the
\* entries of the mock list (AAPL, MSFT, GOOGL, AMZN, NVDA, TSLA, META, in that
\* order) whose symbol or name contains q case-insensitively; for q = "AAPL"
\* the first returned element has symbol "AAPL".
C15_MockSearch ==
  (qResult.settled /\ SearchFailed(qOutcome)) =>
    /\ Len(qResult.value) = Cardinality(Hits(qQuery))
    /\ \A k \in 1..Len(qResult.value) :
         \E i \in Hits(qQuery) :
           /\ Cardinality({j \in Hits(qQuery) : j < i}) = k - 1
           /\ qResult.value[k] = mockResults[i]
    /\ qQuery = QueryAAPL =>
         (qResult.value # <<>> /\ qResult.value[1].symbol = QueryAAPL)
    /\ [i \in 1..Len(mockResults) |-> mockResults[i].symbol] =
         << <<"A", "A", "P", "L">>, <<"M", "S", "F", "T">>, <<"G", "O", "O", "G", "L">>,
            <<"A", "M", "Z", "N">>, <<"N", "V", "D", "A">>, <<"T", "S", "L", "A">>,
            <<"M", "E", "T", "A">> >>

\* C15 witness: a failed search for a lower-case query that matches some but
\* not all mock entries.
C15_Witness ==
  /\ qOutcome = "http_error"
  /\ qQuery = <<"a", "m">>
  /\ qResult.settled
  /\ Len(qResult.value) = 1
  /\ qResult.value[1].symbol = <<"A", "M", "Z", "N">>

\* No search is running.
SearchIdle ==
  /\ qQuery = <<>>
  /\ qOutcome = "none"
  /\ qResult = Resolved(<<>>)

\* searchStocks(qQuery) was called and its request will end with qOutcome.
SearchInit ==
  /\ qQuery \in Queries
  /\ qOutcome \in SearchOutcomes
  /\ qResult = NotSettled

NextSearch == SearchStocks

(***************************************************************************)
(* 4.4  Route handlers (app/api/.../route.ts)                              *)
(***************************************************************************)

\* A query parameter that is not given (searchParams.get returns null).
Null == "null"

\* Status codes an upstream answers with.
Statuses == {200, 401, 404, 500, 503}

\* JSON values an upstream body parses to: a quote, an error object, null, an
\* Exa answer with results (each with a URL that parses or does not), an Exa
\* answer with an empty results array.
JsonValues ==
  {[tag |-> "quote"], [tag |-> "error"], [tag |-> "null"],
   [tag |-> "results", n |-> 1, badUrl |-> FALSE],
   [tag |-> "results", n |-> 1, badUrl |-> TRUE],
   [tag |-> "results", n |-> 0, badUrl |-> FALSE]}

\* A body: text that is not JSON, or the JSON text of a value, spaced as the
\* upstream wrote it or compact as JSON.stringify writes it.
NotJsonBody == [json |-> FALSE]
JsonBody(v, pretty) == [json |-> TRUE, value |-> v, pretty |-> pretty]
Bodies == {NotJsonBody} \cup {JsonBody(v, p) : v \in JsonValues, p \in BOOLEAN}

\* JSON.stringify(value)
JsonStringify(v) == JsonBody(v, FALSE)

\* What the upstream does: the connection fails (fetch rejects with its
\* error), or it answers with a status and a body.
FetchErrors == {"fetch failed: ECONNREFUSED", "fetch failed: ETIMEDOUT"}
Unreachable(e) == [kind |-> "unreachable", error |-> e]
Answer(s, b) == [kind |-> "answer", status |-> s, body |-> b]
Upstreams ==
  {Unreachable(e) : e \in FetchErrors} \cup {Answer(s, b) : s \in Statuses, b \in Bodies}

\* The outcome of a handler: the Response it returns, or the error its
\* promise rejects with.
Response(s, b) == [kind |-> "response", status |-> s, body |-> b]
Rejected(e) == [kind |-> "rejected", error |-> e]
NoFetch == [url |-> "none"]
NoOutcome == [kind |-> "none"]

\* await fetch(...); await res.json(): the value read, or the rejection.
ReadJson(up) ==
  IF up.kind = "unreachable" THEN Rejected(up.error)
  ELSE IF ~up.body.json THEN Rejected("SyntaxError")
  ELSE [kind |-> "value", status |-> up.status, value |-> up.body.value]

\* The tail of the quote and top-movers handlers: relay status and body.
RelayCatch(up) ==
  LET r == ReadJson(up) IN
  IF r.kind = "rejected" THEN Response(502, JsonStringify([tag |-> "error"]))
  ELSE Response(r.status, JsonStringify(r.value))
Relay(up) ==
  LET r == ReadJson(up) IN
  IF r.kind = "rejected" THEN r
  ELSE Response(r.status, JsonStringify(r.value))

\* if (!symbol): the parameter is missing or empty.
SymbolMissingNever(req) == FALSE
SymbolMissing(req) == req.symbol \in {Null, ""}

\* searchParams.get('exchange') || 'NSE'
Exchange(req) == IF req.exchange \in {Null, ""} THEN "NSE" ELSE req.exchange

QuoteRequests == [symbol : {Null, "", "TCS"}, exchange : {Null, "", "BSE"}]

\* GET /api/market/quote
QuoteGET(req, up) ==
  /\ rRoute' = "quote"
  /\ rReq' = req
  /\ IF SymbolMissing(req)
     THEN /\ rUp' = NoOutcome
          /\ rFetched' = NoFetch
          /\ rOut' = Response(400, JsonStringify([tag |-> "error", error |-> "symbol required"]))
     ELSE /\ rUp' = up
          /\ rFetched' = [url |-> "/api/quote", symbol |-> req.symbol, exchange |-> Exchange(req)]
          /\ rOut' = Relay(up)
  /\ UNCHANGED nonRouteVars

\* GET /api/market/top-movers
TopMoversGET(up) ==
  /\ rRoute' = "top-movers"
  /\ rReq' = [none |-> TRUE]
  /\ rUp' = up
  /\ rFetched' = [url |-> "/api/top-movers"]
  /\ rOut' = Relay(up)
  /\ UNCHANGED nonRouteVars

\* (json.results || []).map(...): the simplified items, or the TypeError of
\* json being null or of new URL(r.url).
Simplify(v) ==
  IF v.tag = "null" THEN Rejected("TypeError")
  ELSE IF v.tag = "results" /\ v.n > 0 /\ v.badUrl THEN Rejected("TypeError")
  ELSE [kind |-> "value", value |-> [tag |-> "data", n |-> IF v.tag = "results" THEN v.n ELSE 0]]

NewsRequests == [q : {Null, "nifty"}, hasKey : BOOLEAN]
DefaultNewsQuery == "Indian stock market latest news"

\* GET /api/news
NewsGET(req, up) ==
  /\ rRoute' = "news"
  /\ rReq' = req
  /\ IF ~req.hasKey
     THEN /\ rUp' = NoOutcome
          /\ rFetched' = NoFetch
          /\ rOut' = Response(500, JsonStringify([tag |-> "error", error |-> "EXA_API_KEY not configured"]))
     ELSE /\ rUp' = up
          /\ rFetched' = [url |-> "https://api.exa.ai/search",
                          query |-> IF req.q \in {Null, ""} THEN DefaultNewsQuery ELSE req.q]
          /\ rOut' = LET r == ReadJson(up) IN
                     IF r.kind = "rejected" THEN r
                     ELSE LET s == Simplify(r.value) IN
                          IF s.kind = "rejected" THEN s
                          ELSE Response(200, JsonStringify(s.value))
  /\ UNCHANGED nonRouteVars

\* getAiInsights: the completion's text, or the fallback text of its catch.
AiFallback == "Unable to generate AI insights at this time."
GetAiInsights(ai) == IF ai = "rejects" THEN AiFallback ELSE "insights"

\* How the OpenAI call and getMarketNews (lib/exa) end.
StockUpstreams == [ai : {"resolves", "rejects"}, news : {"resolves", "rejects"}]

\* The body of GET /api/stocks/[symbol]: try { ... } catch { 500 envelope }.
StocksResultNoCatch(symbol, up) ==
  IF up.news = "rejects" THEN Rejected("news error")
  ELSE Response(200, JsonStringify([tag |-> "stock", symbol |-> symbol,
                                     insights |-> GetAiInsights(up.ai)]))
StocksResult(symbol, up) ==
  IF up.news = "rejects"
  THEN Response(500, JsonStringify([tag |-> "error", error |-> "Failed to fetch stock data"]))
  ELSE Response(200, JsonStringify([tag |-> "stock", symbol |-> symbol,
                                     insights |-> GetAiInsights(up.ai)]))

\* GET /api/stocks/[symbol]
StocksGET(symbol, up) ==
  /\ rRoute' = "stocks"
  /\ rReq' = [symbol |-> symbol]
  /\ rUp' = up
  /\ rFetched' = [url |-> "openai, exa"]
  /\ rOut' = StocksResult(symbol, up)
  /\ UNCHANGED nonRouteVars

\* The handler contacted its upstream and the connection failed.
BackendUnreachable == rFetched # NoFetch /\ rUp.kind = "unreachable"

\* The upstream answered with a status and a JSON body.
UpstreamAnswered == rFetched # NoFetch /\ rUp.kind = "answer" /\ rUp.body.json

\* C16 (as claimed): GET /api/market/quote with the backend unreachable
\* returns a response with a non-2xx status whose body is the upstream fetch
\* error forwarded unchanged.
C16_ErrorResponseForwarded ==
  (rRoute = "quote" /\ BackendUnreachable) =>
    /\ rOut.kind = "response"
    /\ rOut.status \notin 200..299
    /\ rOut.body = rUp.error

\* C16: GET /api/market/quote with a symbol and the backend unreachable
\* returns no response at all, hence no 200: the handler's promise rejects
\* with the error of the upstream fetch, unchanged.
C16_RejectsWithFetchError ==
  (rRoute = "quote" /\ BackendUnreachable) =>
    /\ rOut.kind = "rejected"
    /\ rOut.error = rUp.error

\* C16 witness: the quote handler was called for TCS and its fetch failed.
C16_Witness ==
  /\ rRoute = "quote" /\ rReq.symbol = "TCS"
  /\ BackendUnreachable
  /\ rOut = Rejected("fetch failed: ECONNREFUSED")

\* The response body carries the upstream JSON value b: the value itself, or
\* the news route's { data: simplified } made from it.
Carries(body, b) ==
  /\ body.json
  /\ \/ body.value = b
     \/ /\ b.tag = "results"
        /\ body.value = [tag |-> "data", n |-> b.n]

\* C17 (as claimed): for every upstream status s and JSON body b, the proxy
\* handlers (quote, top-movers, news) respond with status s and a body that
\* carries b.
C17_RelaysStatusAndBody ==
  (rRoute \in {"quote", "top-movers", "news"} /\ UpstreamAnswered
     /\ rOut.kind = "response") =>
    /\ rOut.status = rUp.status
    /\ Carries(rOut.body, rUp.body.value)

\* C18 (as claimed): when a step inside GET /api/stocks/[symbol] rejects, the
\* outcome is the native error (a 500 made from the rejection), with no
\* response built by the handler.
C18_RejectionPropagates ==
  (rRoute = "stocks" /\ (rUp.ai = "rejects" \/ rUp.news = "rejects")) =>
    rOut.kind = "rejected"

\* C18: GET /api/stocks/[symbol] never rejects.  When the news call rejects it
\* returns 500 with the envelope { error: 'Failed to fetch stock data' }, the
\* native message dropped; when only the AI-insights call rejects it returns
\* 200 with the fallback text as insights.
C18_StocksEnvelope ==
  rRoute = "stocks" =>
    /\ rOut.kind = "response"
    /\ rUp.news = "rejects" =>
         /\ rOut.status = 500
         /\ rOut.body.value = [tag |-> "error", error |-> "Failed to fetch stock data"]
    /\ rUp.news = "resolves" =>
         /\ rOut.status = 200
         /\ rOut.body.value.tag = "stock"
         /\ (rUp.ai = "rejects") <=> (rOut.body.value.insights = AiFallback)

\* C18 witness: the news call rejected after the AI-insights call resolved.
C18_Witness ==
  /\ rRoute = "stocks"
  /\ rUp = [ai |-> "resolves", news |-> "rejects"]
  /\ rOut.kind = "response" /\ rOut.status = 500

\* C20: GET /api/market/quote without a symbol returns 400 with body
\* { error: 'symbol required' }, GET /api/news without EXA_API_KEY returns 500
\* with an error body, and neither contacts the upstream; a quote request
\* with a symbol and no exchange is not rejected: NSE is fetched.
C20_RejectsWithoutFetch ==
  /\ (rRoute = "quote" /\ rReq.symbol \in {Null, ""}) =>
       /\ rOut = Response(400, JsonBody([tag |-> "error", error |-> "symbol required"], FALSE))
       /\ rFetched = NoFetch
  /\ (rRoute = "news" /\ ~rReq.hasKey) =>
       /\ rOut.kind = "response" /\ rOut.status = 500
       /\ rOut.body.value.tag = "error"
       /\ rFetched = NoFetch
  /\ (rRoute = "quote" /\ rReq.symbol \notin {Null, ""}) =>
       /\ rFetched # NoFetch
       /\ rFetched.symbol = rReq.symbol
       /\ rReq.exchange \in {Null, ""} => rFetched.exchange = "NSE"
       /\ ~(rOut.kind = "response" /\ rOut.status = 400 /\ rUp.kind = "unreachable")

\* C20 witness: a quote request without a symbol was answered with 400.
C20_Witness ==
  /\ rRoute = "quote" /\ rReq.symbol = Null
  /\ rOut.kind = "response" /\ rOut.status = 400
  /\ rFetched = NoFetch

RouteIdle ==
  /\ rRoute = "none"
  /\ rReq = [none |-> TRUE]
  /\ rUp = NoOutcome
  /\ rFetched = NoFetch
  /\ rOut = NoOutcome

NextRoutes ==
  \/ \E req \in QuoteRequests, up \in Upstreams : QuoteGET(req, up)
  \/ \E up \in Upstreams : TopMoversGET(up)
  \/ \E req \in NewsRequests, up \in Upstreams : NewsGET(req, up)
  \/ \E symbol \in {"AAPL", "TCS"}, up \in StockUpstreams : StocksGET(symbol, up)

(***************************************************************************)
(* AI-analyst page: analyzeStock                                           *)
(***************************************************************************)

\* setTimeout(() => controller.abort(), 10000)
ANALYZE_TIMEOUT == 10000

\* Bound of the analyst model: calls of analyzeStock.
MaxAnalyses == 2

\* Time advances in steps of half the timeout, up to the horizon.
AnalystTick == ANALYZE_TIMEOUT \div 2
AnalystHorizon == 2 * ANALYZE_TIMEOUT

\* Values of the symbol input.
AnalystSymbols == {"", "AAPL"}

\* What response.json() yields: an analysis, a falsy value, or a SyntaxError.
AnalysisBodies == {"analysis", "falsy", "bad_json"}
NoAnalysis == "null"

\* A call of analyzeStock that got past the symbol check.
NewCall(t) == [start |-> t, phase |-> "fetching", timer |-> TRUE, outcome |-> "pending"]

\* The state a call leaves behind: try / catch / finally.
EndCallLoading(outcome, data) ==
  /\ aAnalysis' = IF outcome = "success" THEN data ELSE NoAnalysis
  /\ aLoading' = (outcome # "success")
EndCall(outcome, data) ==
  /\ aAnalysis' = IF outcome = "success" THEN data ELSE NoAnalysis
  /\ aLoading' = FALSE

Done(c, outcome) == [c EXCEPT !.phase = "done", !.outcome = outcome]

\* onChange of the symbol input.
SelectSymbol(s) ==
  /\ s # aSymbol
  /\ aSymbol' = s
  /\ aOp' = "select"
  /\ UNCHANGED <<aClock, aLoading, aAnalysis, aCalls, nonAnalystVars>>

\* analyzeStock up to its await fetch (the button, or Enter in the input).
AnalyzeStock ==
  /\ Len(aCalls) < MaxAnalyses
  /\ aClock + ANALYZE_TIMEOUT <= AnalystHorizon
  /\ IF aSymbol = ""
     THEN /\ aOp' = "return"
          /\ UNCHANGED <<aLoading, aCalls>>
     ELSE /\ aLoading' = TRUE
          /\ aCalls' = Append(aCalls, NewCall(aClock))
          /\ aOp' = "analyze"
  /\ UNCHANGED <<aClock, aSymbol, aAnalysis, nonAnalystVars>>

\* fetch resolves with the response's status line: clearTimeout, then the
\* throw of a non-2xx status or the wait for the body.
ResponseArrives(i, ok) ==
  /\ aCalls[i].phase = "fetching"
  /\ IF ok
     THEN /\ aCalls' = [aCalls EXCEPT ![i].phase = "body", ![i].timer = FALSE]
          /\ aOp' = "response"
          /\ UNCHANGED <<aLoading, aAnalysis>>
     ELSE /\ aCalls' = [aCalls EXCEPT ![i] = Done([@ EXCEPT !.timer = FALSE], "http_error")]
          /\ aOp' = "end"
          /\ EndCall("http_error", NoAnalysis)
  /\ UNCHANGED <<aClock, aSymbol, nonAnalystVars>>

\* response.json() settles: setAnalysis(data || null), or the catch block.
BodyRead(i, b) ==
  /\ aCalls[i].phase = "body"
  /\ LET outcome == IF b = "bad_json" THEN "bad_json" ELSE "success" IN
       /\ aCalls' = [aCalls EXCEPT ![i] = Done(@, outcome)]
       /\ EndCall(outcome, IF b = "analysis" THEN "analysis" ELSE NoAnalysis)
  /\ aOp' = "end"
  /\ UNCHANGED <<aClock, aSymbol, nonAnalystVars>>

\* fetch rejects with a network error; the timeout stays armed.
NetworkError(i) ==
  /\ aCalls[i].phase = "fetching"
  /\ aCalls' = [aCalls EXCEPT ![i] = Done(@, "network_error")]
  /\ EndCall("network_error", NoAnalysis)
  /\ aOp' = "end"
  /\ UNCHANGED <<aClock, aSymbol, nonAnalystVars>>

\* The timeout of call i is due.
TimeoutDue(c, t) == c.timer /\ t >= c.start + ANALYZE_TIMEOUT

\* The timeout callback: controller.abort(); a pending fetch rejects with an
\* AbortError, a settled one is not affected.
AnalyzeTimeout(i) ==
  /\ TimeoutDue(aCalls[i], aClock)
  /\ IF aCalls[i].phase = "fetching"
     THEN /\ aCalls' = [aCalls EXCEPT ![i] = Done([@ EXCEPT !.timer = FALSE], "timeout")]
          /\ EndCall("timeout", NoAnalysis)
          /\ aOp' = "end"
     ELSE /\ aCalls' = [aCalls EXCEPT ![i].timer = FALSE]
          /\ aOp' = "abort_noop"
          /\ UNCHANGED <<aLoading, aAnalysis>>
  /\ UNCHANGED <<aClock, aSymbol, nonAnalystVars>>

\* Time passes, never past a timeout that is due.
AnalystAdvance ==
  /\ aClock + AnalystTick <= AnalystHorizon
  /\ \A i \in 1..Len(aCalls) : ~TimeoutDue(aCalls[i], aClock)
  /\ aClock' = aClock + AnalystTick
  /\ aOp' = "tick"
  /\ UNCHANGED <<aSymbol, aLoading, aAnalysis, aCalls, nonAnalystVars>>

\* The call that ended in the step just taken.
EndedNow(i) ==
  /\ i \in 1..Len(aCalls)
  /\ aCalls[i].phase # "done"
  /\ aCalls'[i].phase = "done"

\* C19: analyzeStock aborts its request when no response has arrived 10
\* seconds after the call; every way a call ends (success, HTTP error,
\* network error, timeout abort, unreadable body) leaves loading = false, and
\* analysis = null unless it ended in success; and loading does not stay true.
C19_AnalyzeTerminates ==
  /\ [](\A i \in 1..Len(aCalls) :
          /\ aCalls[i].phase = "fetching" => aClock <= aCalls[i].start + ANALYZE_TIMEOUT
          /\ aCalls[i].outcome = "timeout" => aCalls[i].phase = "done")
  /\ [][\A i \in 1..MaxAnalyses :
          EndedNow(i) =>
            /\ aLoading' = FALSE
            /\ aCalls'[i].outcome # "success" => aAnalysis' = NoAnalysis
            /\ aCalls'[i].outcome = "timeout" => aClock = aCalls[i].start + ANALYZE_TIMEOUT]_vars
  /\ (aLoading ~> ~aLoading)

\* C19 witness: after a call that succeeded with an analysis, a second call
\* got no response and was aborted by its timeout, 10 s after it started.
C19_Witness ==
  /\ Len(aCalls) = 2
  /\ aCalls[1].outcome = "success"
  /\ aCalls[2].outcome = "timeout"
  /\ aClock = aCalls[2].start + ANALYZE_TIMEOUT
  /\ aOp = "end"
  /\ ~aLoading /\ aAnalysis = NoAnalysis

AnalystIdle ==
  /\ aClock = 0
  /\ aSymbol = ""
  /\ aLoading = FALSE
  /\ aAnalysis = NoAnalysis
  /\ aCalls = <<>>
  /\ aOp = "none"

NextAnalyst ==
  \/ \E s \in AnalystSymbols : SelectSymbol(s)
  \/ AnalyzeStock
  \/ \E i \in 1..Len(aCalls), ok \in BOOLEAN : ResponseArrives(i, ok)
  \/ \E i \in 1..Len(aCalls), b \in AnalysisBodies : BodyRead(i, b)
  \/ \E i \in 1..Len(aCalls) : NetworkError(i)
  \/ \E i \in 1..Len(aCalls) : AnalyzeTimeout(i)
  \/ AnalystAdvance

(***************************************************************************)
(* Widget dashboard: WidgetDialog, Dashboard / LegendDashboard drag end    *)
(***************************************************************************)

\* Bounds of the dashboard model: user actions followed, and click events
\* delivered to one rendered dialog button before the dialog renders again.
MaxDashOps == 4
ClicksPerRender == 2

\* The dialog buttons clicked and the remove buttons pressed.
DashWidgets == {"news-feed", "watchlist", "order-book"}
NoTarget == "null"

\* Array.prototype.indexOf / findIndex, 1-based; 0 when absent.
IndexOf(list, x) ==
  IF \E i \in 1..Len(list) : list[i] = x
  THEN CHOOSE i \in 1..Len(list) : list[i] = x /\ \A j \in 1..(i - 1) : list[j] # x
  ELSE 0

\* arrayMove(array, from, to) of @dnd-kit/sortable, 1-based: the element at
\* from is spliced out and spliced in at to.
ArrayMoveCopy(list, from, to) == [list EXCEPT ![to] = list[from]]
ArrayMove(list, from, to) ==
  LET rest == SubSeq(list, 1, from - 1) \o SubSeq(list, from + 1, Len(list)) IN
  SubSeq(rest, 1, to - 1) \o <<list[from]>> \o SubSeq(rest, to, Len(rest))

\* addWidget called n times on the store state.
RECURSIVE AddTimes(_, _, _)
AddTimes(st, w, n) == IF n = 0 THEN st ELSE AddTimes(AddState(st, w), w, n - 1)

NoDashOp == [name |-> "none", called |-> FALSE, list |-> <<>>, active |-> "-", over |-> "-"]

\* n clicks on the dialog button of widget w, all handled by the onClick of
\* one render: () => !isActive && addWidget(widget.id).
DialogClick(w, n) ==
  /\ dOps < MaxDashOps
  /\ LET isActive == \E i \in 1..Len(dStore.activeWidgets) : dStore.activeWidgets[i] = w IN
       dStore' = IF isActive THEN dStore ELSE AddTimes(dStore, w, n)
  /\ dOp' = [NoDashOp EXCEPT !.name = "add", !.active = w]
  /\ dOps' = dOps + 1
  /\ UNCHANGED <<tWidgets, tOp, tOps, nonDashVars>>

\* The remove button of a rendered widget: removeWidget(widgetId).
RemoveClick(i) ==
  /\ dOps < MaxDashOps
  /\ i \in 1..Len(dStore.activeWidgets)
  /\ dStore' = RemoveState(dStore, dStore.activeWidgets[i])
  /\ dOp' = [NoDashOp EXCEPT !.name = "remove", !.active = dStore.activeWidgets[i]]
  /\ dOps' = dOps + 1
  /\ UNCHANGED <<tWidgets, tOp, tOps, nonDashVars>>

\* handleDragEnd: the widget active was dropped over the widget over, or
\* outside every widget (over is null).
HandleDragEnd(active, over) ==
  /\ dOps < MaxDashOps
  /\ LET activeWidgets == dStore.activeWidgets
         oldIndex == IndexOf(activeWidgets, active)
         newIndex == IndexOf(activeWidgets, over)
     IN IF over # NoTarget /\ active # over
        THEN LET moved == ArrayMove(activeWidgets, oldIndex, newIndex) IN
               /\ dStore' = ReorderState(dStore, moved)
               /\ dOp' = [name |-> "drag", called |-> TRUE, list |-> moved,
                          active |-> active, over |-> over]
        ELSE /\ dStore' = dStore
             /\ dOp' = [NoDashOp EXCEPT !.name = "drag", !.active = active, !.over = over]
  /\ dOps' = dOps + 1
  /\ UNCHANGED <<tWidgets, tOp, tOps, nonDashVars>>

\* How often x occurs in list.
Count(list, x) == Cardinality({i \in 1..Len(list) : list[i] = x})
IsPermutation(a, b) ==
  /\ Len(a) = Len(b)
  /\ \A i \in 1..Len(a) : Count(a, a[i]) = Count(b, a[i])

\* C26 (as claimed): after any sequence of dialog adds, removals and drag
\* reorders, also when two add clicks on one widget are handled before the
\* dialog renders again, activeWidgets holds no widget type twice.
C26_NoDuplicateWidgets ==
  \A i, j \in 1..Len(dStore.activeWidgets) :
    dStore.activeWidgets[i] = dStore.activeWidgets[j] => i = j

\* C27: a drag end never adds or drops a widget: with no drop target, or the
\* target being the dragged widget, reorderWidgets is not called and the
\* store keeps its state; otherwise the list passed to reorderWidgets is a
\* permutation of activeWidgets with the dragged widget at the index the drop
\* target had, and it becomes the store's list.
C27_DragEndPermutes ==
  [][dOp'.name = "drag" =>
       IF dOp'.over = NoTarget \/ dOp'.over = dOp'.active
       THEN ~dOp'.called /\ dStore' = dStore
       ELSE /\ dOp'.called
            /\ IsPermutation(dOp'.list, dStore.activeWidgets)
            /\ dOp'.list[IndexOf(dStore.activeWidgets, dOp'.over)] = dOp'.active
            /\ dStore'.activeWidgets = dOp'.list
            /\ dStore'.theme = dStore.theme]_vars

\* C27 witness: the first widget was dragged over the third one of at least
\* four, so the widgets between them shifted.
C27_Witness ==
  /\ dOp.name = "drag" /\ dOp.called
  /\ Len(dStore.activeWidgets) >= 4
  /\ dStore.activeWidgets[3] = dOp.active
  /\ dStore.activeWidgets[2] = dOp.over
  /\ dStore.activeWidgets[1] = "portfolio-performance"

DashIdle ==
  /\ dStore = InitialStore
  /\ dOp = NoDashOp
  /\ dOps = 0

NextDash ==
  \/ \E w \in DashWidgets, n \in 1..ClicksPerRender : DialogClick(w, n)
  \/ \E i \in 1..Len(dStore.activeWidgets) : RemoveClick(i)
  \/ \E i \in 1..Len(dStore.activeWidgets) :
       \E over \in {dStore.activeWidgets[j] : j \in 1..Len(dStore.activeWidgets)} \cup {NoTarget} :
         HandleDragEnd(dStore.activeWidgets[i], over)

(***************************************************************************)
(* Viewport-fit dashboard: toggleWidget                                    *)
(***************************************************************************)

\* activeWidgets.length < 6
MAX_ACTIVE_WIDGETS == 6

\* Bound of the toggle model: toggles followed.
MaxToggles == 4

\* The ids of availableWidgets.
ToggleWidgets ==
  {"market-overview", "trading-chart", "ai-insights", "portfolio", "watchlist",
   "news-feed", "signals", "sentiment", "orderbook"}

defaultLayout ==
  <<"trading-chart", "portfolio", "ai-insights", "watchlist", "signals", "sentiment">>

\* toggleWidget as a function of activeWidgets.
ToggleStateNoCap(list, widgetId) ==
  IF \E i \in 1..Len(list) : list[i] = widgetId
  THEN SelectSeq(list, LAMBDA id : id # widgetId)
  ELSE Append(list, widgetId)
ToggleState(list, widgetId) ==
  IF \E i \in 1..Len(list) : list[i] = widgetId
  THEN SelectSeq(list, LAMBDA id : id # widgetId)
  ELSE IF Len(list) < MAX_ACTIVE_WIDGETS THEN Append(list, widgetId)
  ELSE list

ToggleWidget(widgetId) ==
  /\ tOps < MaxToggles
  /\ tWidgets' = ToggleState(tWidgets, widgetId)
  /\ tOp' = widgetId
  /\ tOps' = tOps + 1
  /\ UNCHANGED <<dStore, dOp, dOps, nonDashVars>>

\* C21: after any sequence of toggleWidget calls from the default layout,
\* activeWidgets has at most 6 entries and no duplicates; toggling an active
\* widget removes it, toggling an inactive one appends it only when fewer
\* than 6 are active, and otherwise the state is unchanged.
C21_ToggleCap ==
  /\ [](Len(tWidgets) <= MAX_ACTIVE_WIDGETS
        /\ \A i, j \in 1..Len(tWidgets) : tWidgets[i] = tWidgets[j] => i = j)
  /\ [][tOps' = tOps + 1 =>
          LET active == \E i \in 1..Len(tWidgets) : tWidgets[i] = tOp' IN
          /\ active =>
               /\ Len(tWidgets') = Len(tWidgets) - 1
               /\ \A i \in 1..Len(tWidgets') : tWidgets'[i] # tOp'
               /\ \A i \in 1..Len(tWidgets') :
                    tWidgets'[i] = tWidgets[IF i < IndexOf(tWidgets, tOp') THEN i ELSE i + 1]
          /\ (~active /\ Len(tWidgets) < MAX_ACTIVE_WIDGETS) =>
               tWidgets' = tWidgets \o <<tOp'>>
          /\ (~active /\ Len(tWidgets) >= MAX_ACTIVE_WIDGETS) =>
               tWidgets' = tWidgets]_vars

\* C21 witness: with six widgets active again after a removal and an
\* addition, toggling an inactive widget changed nothing.
C21_Witness ==
  /\ tOps = 3
  /\ tOp = "orderbook"
  /\ tWidgets = <<"portfolio", "ai-insights", "watchlist", "signals", "sentiment", "news-feed">>

ToggleIdle ==
  /\ tWidgets = defaultLayout
  /\ tOp = "none"
  /\ tOps = 0

NextToggle == \E widgetId \in ToggleWidgets : ToggleWidget(widgetId)

(***************************************************************************)
(* AI-analyst page: generateReport / pollReportStatus                      *)
(***************************************************************************)

\* setTimeout(poll, 2000)
POLL_DELAY == 2000

\* Bounds of the report model: reports generated, and how far time runs.
MaxReports == 2
ReportTick == POLL_DELAY
ReportHorizon == 2 * POLL_DELAY

\* status.status of a status response; "undefined" is a JSON body without a
\* status field, such as the body of an error response.
ReportStatuses == {"generating", "completed", "failed", "undefined"}
NoStatus == "null"

\* status.status !== 'completed' && status.status !== 'failed' is false.
TerminalOnlyCompleted(s) == s = "completed"
Terminal(s) == s \in {"completed", "failed"}

\* disabled={!selectedSymbol || reportStatus?.status === 'generating'}
ButtonDisabled == aSymbol = "" \/ pStatus = "generating"

\* A loop started by generateReport: its POST is in flight ("post"), a
\* status request is in flight ("request"), the 2 s timer is armed ("wait"),
\* or it has ended ("done").
NewLoop == [phase |-> "post", reqs |-> 0, respAt |-> 0, last |-> NoStatus]

\* The Generate Report button: generateReport up to its await fetch.
GenerateReport ==
  /\ ~ButtonDisabled
  /\ Len(pLoops) < MaxReports
  /\ pLoops' = Append(pLoops, NewLoop)
  /\ pOp' = "generate"
  /\ UNCHANGED <<pClock, pStatus, analystVars, nonReportVars>>

\* The POST settles: with a JSON body, setReportStatus(generating) and the
\* first status request; otherwise the catch block.
PostResponds(i, ok) ==
  /\ pLoops[i].phase = "post"
  /\ IF ok
     THEN /\ pStatus' = "generating"
          /\ pLoops' = [pLoops EXCEPT ![i].phase = "request", ![i].reqs = 1]
          /\ pOp' = "request"
     ELSE /\ pLoops' = [pLoops EXCEPT ![i].phase = "done"]
          /\ pOp' = "post_failed"
          /\ UNCHANGED pStatus
  /\ UNCHANGED <<pClock, analystVars, nonReportVars>>

\* A status request settles: setReportStatus(status) and, unless the status
\* is terminal, setTimeout(poll, 2000); a failed request ends the loop.
StatusResponds(i, s) ==
  /\ pLoops[i].phase = "request"
  /\ s \in {"generating", "undefined"} => pClock + POLL_DELAY <= ReportHorizon
  /\ IF s = "error"
     THEN /\ pLoops' = [pLoops EXCEPT ![i].phase = "done", ![i].last = "error"]
          /\ UNCHANGED pStatus
     ELSE /\ pStatus' = s
          /\ pLoops' = [pLoops EXCEPT ![i].phase = IF Terminal(s) THEN "done" ELSE "wait",
                                      ![i].respAt = pClock, ![i].last = s]
  /\ pOp' = "status"
  /\ UNCHANGED <<pClock, analystVars, nonReportVars>>

\* The 2 s timer of loop i fires: poll() issues the next status request.
PollTimer(i) ==
  /\ pLoops[i].phase = "wait"
  /\ pClock >= pLoops[i].respAt + POLL_DELAY
  /\ pLoops' = [pLoops EXCEPT ![i].phase = "request", ![i].reqs = @ + 1]
  /\ pOp' = "request"
  /\ UNCHANGED <<pClock, pStatus, analystVars, nonReportVars>>

\* Time passes, never past a timer that is due.
ReportAdvance ==
  /\ pClock + ReportTick <= ReportHorizon
  /\ \A i \in 1..Len(pLoops) :
       pLoops[i].phase = "wait" => pClock < pLoops[i].respAt + POLL_DELAY
  /\ pClock' = pClock + ReportTick
  /\ pOp' = "tick"
  /\ UNCHANGED <<pStatus, pLoops, analystVars, nonReportVars>>

\* Loop i exists and is in the given phase.
LoopIn(i, phase) == IF i <= Len(pLoops) THEN pLoops[i].phase = phase ELSE FALSE

\* Loop i issued a status request in the step just taken.
RequestedNow(i) ==
  /\ i \in 1..Len(pLoops)
  /\ pLoops'[i].reqs = pLoops[i].reqs + 1

C29_SingleLoop ==
  Cardinality({i \in 1..Len(pLoops) : pLoops[i].phase \in {"request", "wait"}}) <= 1

ReportIdle ==
  /\ pClock = 0
  /\ pStatus = NoStatus
  /\ pLoops = <<>>
  /\ pOp = "none"

NextReport ==
  \/ \E s \in AnalystSymbols : SelectSymbol(s)
  \/ GenerateReport
  \/ \E i \in 1..Len(pLoops), ok \in BOOLEAN : PostResponds(i, ok)
  \/ \E i \in 1..Len(pLoops), s \in ReportStatuses \cup {"error"} : StatusResponds(i, s)
  \/ \E i \in 1..Len(pLoops) : PollTimer(i)
  \/ ReportAdvance

(***************************************************************************)
(* SearchBar: the debounced search effect                                  *)
(***************************************************************************)

\* setTimeout(..., 300)
DEBOUNCE == 300

\* Bounds of the search-bar model: searches issued, and how far time runs.
MaxSearches == 2
BarTick == DEBOUNCE \div 2
BarHorizon == 3 * DEBOUNCE

\* The texts of the input.
BarQueries == {<<>>, <<" ">>, <<"a">>, <<"a", "b">>}

\* The results state: [] or searchStocks(q).slice(0, 8).
NoResults == [of |-> "none"]
ResultsOf(q) == [of |-> q]

\* The effect's cleanup: clearTimeout(searchTimeout).
CleanupLeak(ts) == ts
Cleanup(ts) == <<>>

\* The effect body: a timer whose callback closes over query.
ArmTimer(ts, q, t) == Append(ts, [query |-> q, due |-> t + DEBOUNCE])

\* setQuery(q) followed by the effect's cleanup and re-run.
SetQuery(q) ==
  /\ bQuery' = q
  /\ IF q = bQuery
     THEN UNCHANGED <<bTimers, bHist>>
     ELSE /\ bTimers' = ArmTimer(Cleanup(bTimers), q, bClock)
          /\ bHist' = [since |-> bClock, prev |-> bQuery, lived |-> bClock - bHist.since]

\* onChange of the input.
TypeQuery(q) ==
  /\ q # bQuery
  /\ SetQuery(q)
  /\ bOp' = "type"
  /\ UNCHANGED <<bClock, bResults, bOpen, bInflight, bIssued, nonBarVars>>

\* The debounce timer i fires: the search starts, or an empty query clears
\* the results and closes the dropdown.
DebounceFire(i) ==
  /\ bClock >= bTimers[i].due
  /\ bTimers' = SubSeq(bTimers, 1, i - 1) \o SubSeq(bTimers, i + 1, Len(bTimers))
  /\ IF Len(Trim(bTimers[i].query)) >= 1
     THEN /\ Len(bIssued) < MaxSearches
          /\ bInflight' = Append(bInflight, bTimers[i].query)
          /\ bIssued' = Append(bIssued, bTimers[i].query)
          /\ bOp' = "search"
          /\ UNCHANGED <<bResults, bOpen>>
     ELSE /\ bResults' = NoResults
          /\ bOpen' = FALSE
          /\ bOp' = "fire_empty"
          /\ UNCHANGED <<bInflight, bIssued>>
  /\ UNCHANGED <<bClock, bQuery, bHist, nonBarVars>>

\* searchStocks of request i resolves: setResults, setIsOpen(true).
SearchResponds(i) ==
  /\ bResults' = ResultsOf(bInflight[i])
  /\ bOpen' = TRUE
  /\ bInflight' = SubSeq(bInflight, 1, i - 1) \o SubSeq(bInflight, i + 1, Len(bInflight))
  /\ bOp' = "results"
  /\ UNCHANGED <<bClock, bQuery, bTimers, bHist, bIssued, nonBarVars>>

\* clearSearch and handleResultClick: setQuery(''), setResults([]),
\* setIsOpen(false).
ClearSearch ==
  /\ bQuery # <<>> \/ bOpen
  /\ SetQuery(<<>>)
  /\ bResults' = NoResults
  /\ bOpen' = FALSE
  /\ bOp' = "clear"
  /\ UNCHANGED <<bClock, bInflight, bIssued, nonBarVars>>

\* Escape: setQuery(''), setIsOpen(false).
EscapeKey ==
  /\ bQuery # <<>> \/ bOpen
  /\ SetQuery(<<>>)
  /\ bOpen' = FALSE
  /\ bOp' = "escape"
  /\ UNCHANGED <<bClock, bResults, bInflight, bIssued, nonBarVars>>

\* Time passes, never past a timer that is due.
BarAdvance ==
  /\ bClock + BarTick <= BarHorizon
  /\ \A i \in 1..Len(bTimers) : bClock < bTimers[i].due
  /\ bClock' = bClock + BarTick
  /\ bOp' = "tick"
  /\ UNCHANGED <<bQuery, bResults, bOpen, bTimers, bInflight, bHist, bIssued, nonBarVars>>

\* C23: a search request is issued only for the query value shown, after it
\* stayed unchanged for 300 ms, so a value replaced within 300 ms produces no
\* request; a query that is empty after trimming produces no request, and its
\* timer clears the results and closes the dropdown.
C23_Debounce ==
  /\ [][Len(bIssued') > Len(bIssued) =>
          /\ bIssued' = Append(bIssued, bQuery)
          /\ bQuery' = bQuery
          /\ bClock - bHist.since >= DEBOUNCE
          /\ \E k \in 1..Len(bQuery) : bQuery[k] # " "]_vars
  /\ [][bOp' = "fire_empty" =>
          /\ bIssued' = bIssued /\ bInflight' = bInflight
          /\ bResults' = NoResults /\ ~bOpen']_vars
  /\ [](Len(bTimers) <= 1)

\* C23 witness: "a" was replaced by "ab" after 150 ms, and the only request
\* issued is the one for "ab", 300 ms after it was typed.
C23_Witness ==
  /\ bOp = "search"
  /\ bHist.prev = <<"a">> /\ bHist.lived = BarTick
  /\ bQuery = <<"a", "b">>
  /\ bIssued = << <<"a", "b">> >>
  /\ bClock = bHist.since + DEBOUNCE

\* C28 (as claimed): once no debounce timer is armed and no search is in
\* flight, the results shown are those of the final query, and after the
\* query was cleared the dropdown is closed.
C28_FinalQueryWins ==
  (bTimers = <<>> /\ bInflight = <<>>) =>
    IF Trim(bQuery) = <<>>
    THEN ~bOpen
    ELSE bResults = ResultsOf(bQuery)

BarIdle ==
  /\ bClock = 0
  /\ bQuery = <<>>
  /\ bResults = NoResults
  /\ bOpen = FALSE
  /\ bTimers = <<[query |-> <<>>, due |-> DEBOUNCE]>>
  /\ bInflight = <<>>
  /\ bHist = [since |-> 0, prev |-> <<>>, lived |-> 0]
  /\ bIssued = <<>>
  /\ bOp = "none"

NextBar ==
  \/ \E q \in BarQueries : TypeQuery(q)
  \/ \E i \in 1..Len(bTimers) : DebounceFire(i)
  \/ \E i \in 1..Len(bInflight) : SearchResponds(i)
  \/ ClearSearch
  \/ EscapeKey
  \/ BarAdvance

(***************************************************************************)
(* OrderBook widget: generateMockOrderBook                                 *)
(***************************************************************************)

\* for (let i = 0; i < 8; i++)
BOOK_LEVELS == 8

\* Prices are counted in 1/10000 of a dollar, so that spread / 2 and
\* i * 0.01 are whole numbers.
Cent == 100

\* 180 + Math.random() * 20, with Math.random() in [0, 1).
LastPrices == {180 * Cent * 100, 190 * Cent * 100 + 5, 200 * Cent * 100 - 1}

\* 0.01 + Math.random() * 0.05
Spreads == {Cent, 3 * Cent + 50, 6 * Cent - 2}

\* Math.floor(Math.random() * 500) + 50 for each of the 8 levels.
SizeRuns ==
  { [i \in 1..BOOK_LEVELS |-> 50],
    [i \in 1..BOOK_LEVELS |-> 549],
    [i \in 1..BOOK_LEVELS |-> 50 + 71 * (i - 1)],
    [i \in 1..BOOK_LEVELS |-> 549 - 71 * (i - 1)] }

RECURSIVE SumSizes(_, _)
SumSizes(sizes, n) == IF n = 0 THEN 0 ELSE SumSizes(sizes, n - 1) + sizes[n]

\* The bids loop: level i (from 0) is priced lastPrice - spread/2 - i * 0.01
\* and carries the sum of the sizes pushed so far.
BidLevels(lastPrice, spread, sizes) ==
  [i \in 1..BOOK_LEVELS |->
    [price |-> lastPrice - spread \div 2 - (i - 1) * Cent,
     size |-> sizes[i],
     total |-> SumSizes(sizes, i)]]

\* The asks loop.
AskLevels(lastPrice, spread, sizes) ==
  [i \in 1..BOOK_LEVELS |->
    [price |-> lastPrice + spread \div 2 + (i - 1) * Cent,
     size |-> sizes[i],
     total |-> SumSizes(sizes, i)]]

\* The object returned: bids: bids.reverse(), asks.
MockOrderBook(lastPrice, spread, bidSizes, askSizes) ==
  [made |-> TRUE,
   bids |-> Reverse(BidLevels(lastPrice, spread, bidSizes)),
   asks |-> AskLevels(lastPrice, spread, askSizes),
   spread |-> spread,
   lastPrice |-> lastPrice]

NoBook == [made |-> FALSE, bids |-> <<>>, asks |-> <<>>, spread |-> 0, lastPrice |-> 0]

\* One call of generateMockOrderBook, with the values Math.random() gave.
GenerateMockOrderBook(lastPrice, spread, bidSizes, askSizes) ==
  /\ obBook' = MockOrderBook(lastPrice, spread, bidSizes, askSizes)
  /\ UNCHANGED nonBookVars

\* The entries of a side from its best price to entry i: the entries with a
\* price at least as good.
RECURSIVE SizeOfBetter(_, _, _, _)
SizeOfBetter(side, i, better(_, _), n) ==
  IF n = 0 THEN 0
  ELSE SizeOfBetter(side, i, better, n - 1)
         + (IF n = i \/ better(side[n].price, side[i].price) THEN side[n].size ELSE 0)

Higher(p, q) == p > q
Lower(p, q) == p < q

\* C24 (as claimed): bids run from the highest price to the lowest and asks
\* from the lowest to the highest, bids are below lastPrice and asks above
\* it, and each total is the sum of the sizes from the side's best price to
\* the entry.
C24_BookOrdered ==
  obBook.made =>
    /\ \A i \in 1..(Len(obBook.bids) - 1) : obBook.bids[i].price > obBook.bids[i + 1].price
    /\ \A i \in 1..(Len(obBook.asks) - 1) : obBook.asks[i].price < obBook.asks[i + 1].price
    /\ \A i \in 1..Len(obBook.bids) : obBook.bids[i].price < obBook.lastPrice
    /\ \A i \in 1..Len(obBook.asks) : obBook.asks[i].price > obBook.lastPrice
    /\ \A i \in 1..Len(obBook.bids) :
         obBook.bids[i].total = SizeOfBetter(obBook.bids, i, Higher, Len(obBook.bids))
    /\ \A i \in 1..Len(obBook.asks) :
         obBook.asks[i].total = SizeOfBetter(obBook.asks, i, Lower, Len(obBook.asks))

\* What does hold of every book: the claim with the bids listed from the
\* lowest price to the highest.
BookAsBuilt ==
  obBook.made =>
    /\ Len(obBook.bids) = BOOK_LEVELS /\ Len(obBook.asks) = BOOK_LEVELS
    /\ \A i \in 1..(Len(obBook.bids) - 1) : obBook.bids[i].price < obBook.bids[i + 1].price
    /\ \A i \in 1..(Len(obBook.asks) - 1) : obBook.asks[i].price < obBook.asks[i + 1].price
    /\ \A i \in 1..Len(obBook.bids) : obBook.bids[i].price < obBook.lastPrice
    /\ \A i \in 1..Len(obBook.asks) : obBook.asks[i].price > obBook.lastPrice
    /\ \A i \in 1..Len(obBook.bids) :
         obBook.bids[i].total = SizeOfBetter(obBook.bids, i, Higher, Len(obBook.bids))
    /\ \A i \in 1..Len(obBook.asks) :
         obBook.asks[i].total = SizeOfBetter(obBook.asks, i, Lower, Len(obBook.asks))

BookIdle == obBook = NoBook

NextBook ==
  \E lastPrice \in LastPrices, spread \in Spreads, bidSizes \in SizeRuns, askSizes \in SizeRuns :
    GenerateMockOrderBook(lastPrice, spread, bidSizes, askSizes)

(***************************************************************************)
(* middleware.ts: clerkMiddleware and the public routes                    *)
(***************************************************************************)

\* Bound of the middleware model: segments of a request path.
MaxSegments == 3

\* A path is a sequence of pieces of text; "/" is a piece of its own, and a
\* segment is one or two pieces, so that "/sign-in-help" begins with the
\* pieces of "/sign-in".
SegmentSet ==
  { <<"sign-in">>, <<"sign-in", "-help">>, <<"sign-up">>, <<"api">>, <<"stocks">>,
    <<"market">>, <<"news">>, <<"_next">>, <<"static">>, <<"favicon.ico">>,
    <<"dashboard">> }

RECURSIVE JoinPath(_)
JoinPath(segs) ==
  IF segs = <<>> THEN <<>>
  ELSE <<"/">> \o Head(segs) \o JoinPath(Tail(segs))

PathOf(segs) == IF segs = <<>> THEN <<"/">> ELSE JoinPath(segs)

RequestPaths ==
  { PathOf(segs) : segs \in UNION { [1..n -> SegmentSet] : n \in 0..MaxSegments } }

HasPrefix(p, pre) == Len(p) >= Len(pre) /\ SubSeq(p, 1, Len(pre)) = pre

\* A route pattern: literal text, followed by (.*) or by the end of the path.
Pattern(lit, rest) == [lit |-> lit, rest |-> rest]
MatchesPattern(pat, p) == IF pat.rest THEN HasPrefix(p, pat.lit) ELSE p = pat.lit

\* createRouteMatcher(['/', '/sign-in(.*)', '/sign-up(.*)', '/api/stocks/(.*)'])
PublicPatterns ==
  { Pattern(<<"/">>, FALSE),
    Pattern(<<"/", "sign-in">>, TRUE),
    Pattern(<<"/", "sign-up">>, TRUE),
    Pattern(<<"/", "api", "/", "stocks", "/">>, TRUE) }

IsPublicRouteNoApi(p) ==
  \E pat \in PublicPatterns : Len(pat.lit) <= 2 /\ MatchesPattern(pat, p)
IsPublicRoute(p) == \E pat \in PublicPatterns : MatchesPattern(pat, p)

\* config.matcher: '/((?!_next/static|_next/image|favicon.ico).*)'
ExcludedPrefixes ==
  { <<"/", "_next", "/", "static">>, <<"/", "_next", "/", "image">>, <<"/", "favicon.ico">> }
ConfigMatches(p) == HasPrefix(p, <<"/">>) /\ \A pre \in ExcludedPrefixes : ~HasPrefix(p, pre)

NoRun == [handled |-> FALSE, ran |-> FALSE, protect |-> FALSE, reached |-> FALSE]

\* A request: the middleware runs when config.matcher matches, calls
\* auth.protect() when the route is not public, and auth.protect() lets
\* only a signed-in request through.
Middleware(p, signedIn) ==
  LET ran == ConfigMatches(p)
      protect == ran /\ ~IsPublicRoute(p)
  IN [handled |-> TRUE, ran |-> ran, protect |-> protect, reached |-> (~protect \/ signedIn)]

\* The request is handled.
Request ==
  /\ ~mOut.handled
  /\ mOut' = Middleware(mPath, mSignedIn)
  /\ UNCHANGED <<mPath, mSignedIn, nonMwVars>>

\* The public routes as listed: '/', '/sign-in...', '/sign-up...',
\* '/api/stocks/...'.
ListedPublic(p) ==
  \/ p = <<"/">>
  \/ Len(p) >= 2 /\ p[1] = "/" /\ p[2] \in {"sign-in", "sign-up"}
  \/ Len(p) >= 5 /\ <<p[1], p[2], p[3], p[4], p[5]>> = <<"/", "api", "/", "stocks", "/">>

UnderApi(p, name) == HasPrefix(p, <<"/", "api", "/", name>>)

\* C25: for every request the middleware runs on, auth.protect() is invoked
\* exactly when the path is not one of the public routes; /api/market/* and
\* /api/news are protected, and /api/stocks/* is reached without
\* authentication.
C25_ProtectUnlessPublic ==
  /\ mOut.ran => (mOut.protect <=> ~ListedPublic(mPath))
  /\ ~mOut.ran => ~mOut.protect
  /\ mOut.handled => (mOut.reached <=> (~mOut.protect \/ mSignedIn))
  /\ (mOut.ran /\ (UnderApi(mPath, "market") \/ mPath = <<"/", "api", "/", "news">>)) =>
       (mOut.protect /\ (mOut.reached <=> mSignedIn))
  /\ (mOut.ran /\ HasPrefix(mPath, <<"/", "api", "/", "stocks", "/">>)) =>
       (~mOut.protect /\ mOut.reached)

\* C25 witness: an unauthenticated request for /api/stocks/<symbol> went
\* through the middleware and reached its route.
C25_Witness ==
  /\ mOut.ran /\ ~mSignedIn
  /\ mPath = <<"/", "api", "/", "stocks", "/", "news">>
  /\ mOut.reached

MwIdle ==
  /\ mPath = <<"/">>
  /\ mSignedIn = FALSE
  /\ mOut = NoRun

\* A request arrives.
MwInit ==
  /\ mPath \in RequestPaths
  /\ mSignedIn \in BOOLEAN
  /\ mOut = NoRun

NextMw == Request

(***************************************************************************)
(* Specifications                                                          *)
(***************************************************************************)

\* The poller of an idle page: an unmounted useStockData.
HookIdle == HookInit /\ hKind = "stock"

\* The page's own state before the first user action.
ViewIdle == DashIdle /\ ToggleIdle /\ ReportIdle /\ BarIdle /\ BookIdle /\ MwIdle
PageIdle == WatchIdle /\ SearchIdle /\ RouteIdle /\ AnalystIdle /\ ViewIdle
LibIdle == CacheInit /\ FetcherInit /\ HookIdle /\ StoreInit

Init == LibIdle /\ PageIdle
InitHook == CacheInit /\ FetcherInit /\ HookInit /\ StoreInit /\ PageIdle
InitWatch == LibIdle /\ WatchInit /\ SearchIdle /\ RouteIdle /\ AnalystIdle /\ ViewIdle
InitMw ==
  /\ LibIdle /\ WatchIdle /\ SearchIdle /\ RouteIdle /\ AnalystIdle
  /\ DashIdle /\ ToggleIdle /\ ReportIdle /\ BarIdle /\ BookIdle /\ MwInit
InitSearch == LibIdle /\ WatchIdle /\ SearchInit /\ RouteIdle /\ AnalystIdle /\ ViewIdle

SpecCache == Init /\ [][NextCache]_vars
SpecFetchers == Init /\ [][NextFetchers]_vars
SpecHook == InitHook /\ [][NextHook]_vars
SpecStore == Init /\ [][NextStore]_vars
SpecWatch == InitWatch /\ [][NextWatch]_vars
SpecSearch == InitSearch /\ [][NextSearch]_vars
SpecRoutes == Init /\ [][NextRoutes]_vars
SpecAnalyst == Init /\ [][NextAnalyst]_vars
SpecDash == Init /\ [][NextDash]_vars
SpecToggle == Init /\ [][NextToggle]_vars
SpecReport == Init /\ [][NextReport]_vars
SpecBar == Init /\ [][NextBar]_vars
SpecBook == Init /\ [][NextBook]_vars
SpecMw == InitMw /\ [][NextMw]_vars

\* The browser keeps its clock and timers running and every request ends.
SpecHookLive ==
  /\ SpecHook
  /\ WF_vars(\E d \in TickSteps : Tick(d))
  /\ SF_vars(\E i \in 1..Len(timers) : TimerFire(i))
  /\ WF_vars(\E i \in 1..Len(fetches), o \in PollerOutcomes : Complete(i, o))

\* The clock runs, a due timeout fires, and a body being read ends.
SpecAnalystLive ==
  /\ SpecAnalyst
  /\ WF_vars(AnalystAdvance)
  /\ WF_vars(\E i \in 1..Len(aCalls) : AnalyzeTimeout(i))
  /\ WF_vars(\E i \in 1..Len(aCalls), b \in AnalysisBodies : BodyRead(i, b))

\* The clock runs and a due poll timer fires.
SpecReportLive ==
  /\ SpecReport
  /\ WF_vars(ReportAdvance)
  /\ WF_vars(\E i \in 1..Len(pLoops) : PollTimer(i))

====
